---- MODULE Spec2Model ----
(***************************************************************************)
(* Model of nu_plugin_nw_ulid: the identifier engine (ulid_engine.rs), the *)
(* `ulid generate` command (commands/ulid.rs), the `ulid sort` command     *)
(* (commands/sort.rs), the security context test (security.rs), the        *)
(* `ulid stream` and `ulid generate-stream` commands (commands/stream.rs), *)
(* `ulid time parse` and `ulid time millis` (commands/time.rs) and         *)
(* `ulid hash blake3` and `ulid hash random` (commands/hash.rs).           *)
(*                                                                         *)
(* Representation of machine values.  TLC integers are 32 bit, so the wide *)
(* integers of the program are kept as big-endian sequences of base-32     *)
(* digits (5 bits each):                                                   *)
(*   u128 : 26 digits, the first in 0..7   (3 + 25*5 = 128 bits)           *)
(*   u64  : 13 digits, the first in 0..15  (4 + 12*5 =  64 bits)           *)
(* A shift or mask of the program is the corresponding operation on the    *)
(* digits.  An i64 flag value is kept as its two's complement bit pattern, *)
(* which is what `as u64` reinterprets; it is negative iff its first digit *)
(* is >= 8.  A string is the sequence of its bytes (ASCII only, so that    *)
(* str::len() and chars().count() agree).                                  *)
(***************************************************************************)
EXTENDS Integers, Sequences, FiniteSets, TLC

VARIABLES
    input,      \* engine: the string handed to the engine functions
    vRes,       \* engine: result of UlidEngine::validate(input)
    pRes,       \* engine: result of UlidEngine::parse(input)
    dRes,       \* engine: result of UlidEngine::validate_detailed(input)
    tRes,       \* engine: result of UlidEngine::extract_timestamp(input)
    rRes,       \* engine: result of UlidEngine::extract_randomness(input)
    genCall,    \* generation: the call made (operation and arguments)
    genRes,     \* generation: what the call returned
    sortIn,     \* sort: the pipeline input and the --column flag
    sortOut,    \* sort: the result of `ulid sort` for each <<natural, reverse>>
    secIn,      \* security: the context string classified
    secOut,     \* security: result of is_security_sensitive_context(secIn)
    ratingOut,  \* security: result of get_security_rating(secIn)
    streamIn,   \* stream: the pipeline input and the operation of `ulid stream`
    streamOut,  \* stream: the outcome of `ulid stream` for each flag setting
    gsCall,     \* generate-stream: the arguments and flags of the call
    gsRes,      \* generate-stream: what the call returned
    timeIn,     \* time: the positional value handed to the time commands
    timeOut,    \* time: outcomes of `ulid time parse` and `ulid time millis`
    hashCall,   \* hash: the command and flags of the call
    hashRes,    \* hash: what the call returned
    rng,        \* session: the state of the process's random number generator
    calls       \* session: the invocations served so far, each with its outcome

engineVars == <<input, vRes, pRes, dRes, tRes, rRes>>
genVars == <<genCall, genRes>>
sortVars == <<sortIn, sortOut>>
securityVars == <<secIn, secOut, ratingOut>>
streamVars == <<streamIn, streamOut>>
genStreamVars == <<gsCall, gsRes>>
timeVars == <<timeIn, timeOut>>
hashVars == <<hashCall, hashRes>>
sessionVars == <<rng, calls>>
commandVars == <<securityVars, streamVars, genStreamVars, timeVars, hashVars, sessionVars>>
vars == <<input, vRes, pRes, dRes, tRes, rRes, genCall, genRes, sortIn, sortOut,
          secIn, secOut, ratingOut, streamIn, streamOut, gsCall, gsRes, timeIn, timeOut,
          hashCall, hashRes, rng, calls>>

----------------------------------------------------------------------------
(* Bounds of the explored inputs *)

MaxHead == 2        \* free leading characters of an input string
MaxShort == 1       \* short input strings have 0..MaxShort characters
MaxLow == 1         \* the lowest digit of a sampled number is in 0..MaxLow
MaxCount == 2       \* small --count values are in 0..MaxCount
MaxList == 2        \* length of the lists handed to `ulid sort`
MaxFlip == 3        \* leading characters of a context whose case is varied
MaxBatch == 2       \* small --batch-size values are in 1..MaxBatch
MaxCalls == 3       \* invocations served by one plugin process

----------------------------------------------------------------------------
(* Generic helpers *)

Range(s) == {s[i] : i \in DOMAIN s}

Repeat(x, n) == [i \in 1..n |-> x]

SeqsUpTo(S, n) == UNION {[1..k -> S] : k \in 0..n}

\* Ordering of two equally long big-endian digit sequences (u64::cmp)
RECURSIVE CmpDigits(_, _)
CmpDigits(a, b) ==
    IF a = <<>> THEN "Equal"
    ELSE IF Head(a) < Head(b) THEN "Less"
    ELSE IF Head(a) > Head(b) THEN "Greater"
    ELSE CmpDigits(Tail(a), Tail(b))

----------------------------------------------------------------------------
(* The ulid crate's Crockford base-32 codec and Ulid value, as used through *)
(* Ulid::from_str, Ulid::to_string, Ulid::from_parts, timestamp_ms, random  *)

ULID_LEN == 26
TIME_DIGITS == 10        \* 48 bits: 3 bits of the first digit + 9 * 5
RAND_DIGITS == 16        \* 80 bits: 16 * 5
NO_VALUE == 255

\* "0123456789ABCDEFGHJKMNPQRSTVWXYZ"
ALPHABET ==
    <<48,49,50,51,52,53,54,55,56,57,65,66,67,68,69,70,71,72,74,75,77,78,
      80,81,82,83,84,86,87,88,89,90>>

\* the characters of the alphabet, as a set
valid_chars == {ALPHABET[i] : i \in DOMAIN ALPHABET}

IsUpperLetter(c) == c >= 65 /\ c <= 90

\* u8::to_ascii_lowercase on a byte
ToLower(c) == IF IsUpperLetter(c) THEN c + 32 ELSE c

\* The decoder's lookup table, indexed by byte: a symbol of the alphabet in
\* either letter case maps to its 5-bit value, every other byte to NO_VALUE.
LookupTable ==
    [c \in 0..255 |->
        IF \E i \in DOMAIN ALPHABET : ALPHABET[i] = c \/ ToLower(ALPHABET[i]) = c
        THEN (CHOOSE i \in DOMAIN ALPHABET :
                  ALPHABET[i] = c \/ ToLower(ALPHABET[i]) = c) - 1
        ELSE NO_VALUE]

LOOKUP(c) == LookupTable[c]

\* base32 decode: length check, then value = (value << 5) | digit for each
\* byte.  26 digits are 130 bits: the two highest bits of the first digit are
\* shifted out of the u128 (no overflow error exists in the decoder).
decode(s) ==
    IF Len(s) # ULID_LEN THEN
        [ok |-> FALSE, err |-> "invalid length", value |-> <<>>]
    ELSE IF \E i \in DOMAIN s : LOOKUP(s[i]) = NO_VALUE THEN
        [ok |-> FALSE, err |-> "invalid character", value |-> <<>>]
    ELSE
        [ok |-> TRUE, err |-> "",
         value |-> [i \in 1..ULID_LEN |->
                        IF i = 1 THEN LOOKUP(s[i]) % 8 ELSE LOOKUP(s[i])]]

\* Ulid::from_str
from_str(s) == decode(s)

\* Mutant: the encoder writes letters in lower case.
to_string_lower(u) == [i \in 1..ULID_LEN |-> ToLower(ALPHABET[u[i] + 1])]

\* Ulid::to_string: base32 encode of the 128-bit value, 26 upper-case symbols
to_string(u) == [i \in 1..ULID_LEN |-> ALPHABET[u[i] + 1]]

\* Mutant: the timestamp is taken five bits too high (value >> 85).
timestamp_ms_shifted(u) == <<0, 0, 0, 0>> \o SubSeq(u, 1, TIME_DIGITS - 1)

\* Ulid::timestamp_ms: the upper 48 bits as a u64
timestamp_ms(u) == <<0, 0, 0>> \o SubSeq(u, 1, TIME_DIGITS)

\* Ulid::random: the lower 80 bits
random(u) == SubSeq(u, TIME_DIGITS + 1, ULID_LEN)

----------------------------------------------------------------------------
(* format!("{:x}", ulid.random()) *)

DigitBits(d) == <<(d \div 16) % 2, (d \div 8) % 2, (d \div 4) % 2, (d \div 2) % 2, d % 2>>

RECURSIVE Bits(_)
Bits(ds) == IF ds = <<>> THEN <<>> ELSE DigitBits(Head(ds)) \o Bits(Tail(ds))

\* "0123456789abcdef"
HEX == <<48,49,50,51,52,53,54,55,56,57,97,98,99,100,101,102>>

Nibbles(bits) ==
    [k \in 1..(Len(bits) \div 4) |->
        8 * bits[4*k - 3] + 4 * bits[4*k - 2] + 2 * bits[4*k - 1] + bits[4*k]]

RECURSIVE StripZeros(_)
StripZeros(ns) ==
    IF Len(ns) > 1 /\ Head(ns) = 0 THEN StripZeros(Tail(ns)) ELSE ns

LowerHex(rnd) ==
    LET ns == StripZeros(Nibbles(Bits(rnd)))
    IN  [k \in DOMAIN ns |-> HEX[ns[k] + 1]]

----------------------------------------------------------------------------
(* UlidEngine: parse, validate, validate_detailed, extract_* *)

NoU64 == <<>>

\* UlidEngine::parse
parse(ulid_str) ==
    LET d == from_str(ulid_str) IN
    IF d.ok THEN
        [ok |-> TRUE, ulid |-> ulid_str, timestamp_ms |-> timestamp_ms(d.value),
         randomness_hex |-> LowerHex(random(d.value)), valid |-> TRUE,
         kind |-> "", input |-> <<>>, reason |-> <<>>]
    ELSE
        [ok |-> FALSE, ulid |-> <<>>, timestamp_ms |-> NoU64,
         randomness_hex |-> <<>>, valid |-> FALSE,
         kind |-> "InvalidFormat", input |-> ulid_str,
         reason |-> <<"Parse error", d.err>>]

\* UlidEngine::validate
validate(ulid_str) == from_str(ulid_str).ok

\* The entries of UlidValidationResult.errors
LengthError(n) == [rule |-> "length", ch |-> 0, pos |-> n]
CharError(c, i) == [rule |-> "charset", ch |-> c, pos |-> i]
ParseError(e) == [rule |-> e, ch |-> 0, pos |-> 0]

\* The per-character loop of validate_detailed over chars().enumerate():
\* one entry for every character outside valid_chars, positions from 0.
RECURSIVE CharErrors(_, _)
CharErrors(s, i) ==
    IF i > Len(s) THEN <<>>
    ELSE IF s[i] \notin valid_chars
         THEN <<CharError(s[i], i - 1)>> \o CharErrors(s, i + 1)
         ELSE CharErrors(s, i + 1)

\* Mutant: the character loop is skipped once the length check has failed.
validate_detailed_short_circuit(ulid_str) ==
    LET lenBad == Len(ulid_str) # ULID_LEN
        cerrs == IF lenBad THEN <<>> ELSE CharErrors(ulid_str, 1)
        d == from_str(ulid_str)
        tryParse == ~lenBad /\ cerrs = <<>>
    IN  [valid |-> ~lenBad /\ cerrs = <<>> /\ d.ok,
         length |-> Len(ulid_str),
         charset_valid |-> cerrs = <<>>,
         timestamp_valid |-> ~(tryParse /\ ~d.ok),
         errors |-> (IF lenBad THEN <<LengthError(Len(ulid_str))>> ELSE <<>>)
                    \o cerrs
                    \o (IF tryParse /\ ~d.ok THEN <<ParseError(d.err)>> ELSE <<>>)]

\* Mutant: a wrong length clears `valid` but pushes no error entry.
validate_detailed_no_length_entry(ulid_str) ==
    LET lenBad == Len(ulid_str) # ULID_LEN
        cerrs == CharErrors(ulid_str, 1)
        basicValid == ~lenBad /\ cerrs = <<>>
        d == from_str(ulid_str)
        parseBad == basicValid /\ ~d.ok
    IN  [valid |-> basicValid /\ ~parseBad,
         length |-> Len(ulid_str),
         charset_valid |-> cerrs = <<>>,
         timestamp_valid |-> ~parseBad,
         errors |-> cerrs \o (IF parseBad THEN <<ParseError(d.err)>> ELSE <<>>)]

\* UlidEngine::validate_detailed
validate_detailed(ulid_str) ==
    LET lenBad == Len(ulid_str) # ULID_LEN                   \* "Check length"
        cerrs == CharErrors(ulid_str, 1)                     \* "Check character set"
        basicValid == ~lenBad /\ cerrs = <<>>                \* result.valid so far
        d == from_str(ulid_str)
        parseBad == basicValid /\ ~d.ok                      \* "if basic checks pass"
    IN  [valid |-> basicValid /\ ~parseBad,
         length |-> Len(ulid_str),
         charset_valid |-> cerrs = <<>>,
         timestamp_valid |-> ~parseBad,
         errors |-> (IF lenBad THEN <<LengthError(Len(ulid_str))>> ELSE <<>>)
                    \o cerrs
                    \o (IF parseBad THEN <<ParseError(d.err)>> ELSE <<>>)]

\* Mutant: extract_timestamp reports the error without the offending input.
extract_timestamp_no_input(ulid_str) ==
    LET d == from_str(ulid_str) IN
    IF d.ok THEN [ok |-> TRUE, value |-> timestamp_ms(d.value),
                  kind |-> "", input |-> <<>>, reason |-> <<>>]
    ELSE [ok |-> FALSE, value |-> NoU64, kind |-> "InvalidFormat",
          input |-> <<>>, reason |-> <<"Cannot extract timestamp", d.err>>]

\* UlidEngine::extract_timestamp
extract_timestamp(ulid_str) ==
    LET d == from_str(ulid_str) IN
    IF d.ok THEN [ok |-> TRUE, value |-> timestamp_ms(d.value),
                  kind |-> "", input |-> <<>>, reason |-> <<>>]
    ELSE [ok |-> FALSE, value |-> NoU64, kind |-> "InvalidFormat",
          input |-> ulid_str, reason |-> <<"Cannot extract timestamp", d.err>>]

\* UlidEngine::extract_randomness
extract_randomness(ulid_str) ==
    LET d == from_str(ulid_str) IN
    IF d.ok THEN [ok |-> TRUE, value |-> random(d.value),
                  kind |-> "", input |-> <<>>, reason |-> <<>>]
    ELSE [ok |-> FALSE, value |-> <<>>, kind |-> "InvalidFormat",
          input |-> ulid_str, reason |-> <<"Cannot extract randomness", d.err>>]

----------------------------------------------------------------------------
(* SecurityWarnings::is_security_sensitive_context *)

sensitive_keywords ==
    <<
      <<97,117,116,104>>,    \* auth
      <<97,117,116,104,101,110,116,105,99,97,116,105,111,110>>,    \* authentication
      <<97,117,116,104,111,114,105,122,101>>,    \* authorize
      <<97,117,116,104,111,114,105,122,97,116,105,111,110>>,    \* authorization
      <<116,111,107,101,110>>,    \* token
      <<115,101,115,115,105,111,110>>,    \* session
      <<112,97,115,115,119,111,114,100>>,    \* password
      <<115,101,99,114,101,116>>,    \* secret
      <<107,101,121>>,    \* key
      <<99,114,101,100,101,110,116,105,97,108>>,    \* credential
      <<108,111,103,105,110>>,    \* login
      <<115,105,103,110,105,110>>,    \* signin
      <<115,105,103,110,117,112>>,    \* signup
      <<115,101,99,117,114,105,116,121>>,    \* security
      <<115,101,99,117,114,101>>,    \* secure
      <<97,112,105,95,107,101,121>>,    \* api_key
      <<97,112,105,107,101,121>>,    \* apikey
      <<97,99,99,101,115,115,95,116,111,107,101,110>>,    \* access_token
      <<114,101,102,114,101,115,104,95,116,111,107,101,110>>,    \* refresh_token
      <<106,119,116>>,    \* jwt
      <<111,97,117,116,104>>,    \* oauth
      <<115,97,109,108>>,    \* saml
      <<111,105,100,99>>,    \* oidc
      <<114,101,115,101,116>>,    \* reset
      <<114,101,99,111,118,101,114,121>>,    \* recovery
      <<118,101,114,105,102,105,99,97,116,105,111,110>>,    \* verification
      <<99,111,110,102,105,114,109>>,    \* confirm
      <<110,111,110,99,101>>,    \* nonce
      <<99,115,114,102>>,    \* csrf
      <<120,115,114,102>>,    \* xsrf
      <<99,104,97,108,108,101,110,103,101>>    \* challenge
    >>

\* str::to_lowercase (ASCII)
to_lowercase(s) == [i \in DOMAIN s |-> ToLower(s[i])]

\* str::contains
contains(s, pat) ==
    \E k \in 0..(Len(s) - Len(pat)) : SubSeq(s, k + 1, k + Len(pat)) = pat

\* Mutant: the context is searched as given, without lower-casing it.
is_security_sensitive_context_case_sensitive(context) ==
    \E k \in DOMAIN sensitive_keywords : contains(context, sensitive_keywords[k])

is_security_sensitive_context(context) ==
    LET context_lower == to_lowercase(context)
    IN  \E k \in DOMAIN sensitive_keywords : contains(context_lower, sensitive_keywords[k])

----------------------------------------------------------------------------
(* SecurityWarnings::get_security_rating *)

high_risk ==
    <<
      <<97,117,116,104>>,    \* auth
      <<97,117,116,104,101,110,116,105,99,97,116,105,111,110>>,    \* authentication
      <<116,111,107,101,110>>,    \* token
      <<115,101,115,115,105,111,110>>,    \* session
      <<112,97,115,115,119,111,114,100>>,    \* password
      <<115,101,99,114,101,116>>,    \* secret
      <<107,101,121>>,    \* key
      <<108,111,103,105,110>>,    \* login
      <<97,112,105,95,107,101,121>>,    \* api_key
      <<106,119,116>>,    \* jwt
      <<111,97,117,116,104>>    \* oauth
    >>

medium_risk ==
    <<
      <<117,115,101,114>>,    \* user
      <<97,99,99,111,117,110,116>>,    \* account
      <<112,114,111,102,105,108,101>>,    \* profile
      <<97,100,109,105,110>>,    \* admin
      <<115,101,99,117,114,105,116,121>>,    \* security
      <<114,101,115,101,116>>,    \* reset
      <<118,101,114,105,102,121>>,    \* verify
      <<99,111,110,102,105,114,109>>,    \* confirm
      <<97,99,99,101,115,115>>    \* access
    >>

low_risk ==
    <<
      <<100,97,116,97,98,97,115,101>>,    \* database
      <<100,98>>,    \* db
      <<114,101,99,111,114,100>>,    \* record
      <<108,111,103>>,    \* log
      <<102,105,108,101>>,    \* file
      <<111,98,106,101,99,116>>,    \* object
      <<116,114,97,99,101>>,    \* trace
      <<99,111,114,114,101,108,97,116,105,111,110>>,    \* correlation
      <<97,110,97,108,121,116,105,99,115>>,    \* analytics
      <<109,111,110,105,116,111,114,105,110,103>>    \* monitoring
    >>

\* risk.iter().any(|&risk| context_lower.contains(risk))
any_contained(risk, context_lower) ==
    \E k \in DOMAIN risk : contains(context_lower, risk[k])

\* Mutant: the lists are tested from the lowest risk to the highest.
get_security_rating_low_first(context) ==
    LET context_lower == to_lowercase(context)
    IN  IF any_contained(low_risk, context_lower) THEN "Low"
        ELSE IF any_contained(medium_risk, context_lower) THEN "Medium"
        ELSE IF any_contained(high_risk, context_lower) THEN "High"
        ELSE "Unknown"

get_security_rating(context) ==
    LET context_lower == to_lowercase(context)
    IN  IF any_contained(high_risk, context_lower) THEN "High"
        ELSE IF any_contained(medium_risk, context_lower) THEN "Medium"
        ELSE IF any_contained(low_risk, context_lower) THEN "Low"
        ELSE "Unknown"

----------------------------------------------------------------------------
(* UlidEngine: generate, generate_with_timestamp, generate_bulk *)

BULK_LIMIT == 10000              \* the engine's ceiling in generate_bulk
MAX_BULK_GENERATION == 10000     \* crate::MAX_BULK_GENERATION (command layer)

U64_DIGITS == 13
ZeroU64 == Repeat(0, U64_DIGITS)
\* u64::MAX
U64Max == <<15>> \o Repeat(31, U64_DIGITS - 1)

\* Ulid::from_parts(timestamp_ms: u64, random: u128):
\*   ((timestamp_ms & mask(48)) << 80) | (random & mask(80))
from_parts(ts, rnd) ==
    (<<ts[4] % 8>> \o SubSeq(ts, 5, U64_DIGITS)) \o SubSeq(rnd, TIME_DIGITS + 1, ULID_LEN)

\* x & 0xFFFFFFFFFFFFFFFFFFFF on a u128
Mask80(x) == Repeat(0, TIME_DIGITS) \o SubSeq(x, TIME_DIGITS + 1, ULID_LEN)

\* The i-th draw of the process RNG in one call, for a given seed: the draws
\* of one call differ from each other in their low 15 bits.
RandAt(seed, i) ==
    [k \in 1..ULID_LEN |->
        IF k = ULID_LEN THEN (seed[k] + i) % 32
        ELSE IF k = ULID_LEN - 1 THEN (seed[k] + (i \div 32)) % 32
        ELSE IF k = ULID_LEN - 2 THEN (seed[k] + (i \div 1024)) % 32
        ELSE seed[k]]

\* Ulid::new(): from_datetime(SystemTime::now()) with fresh randomness
Ulid_new(now, rnd) == from_parts(now, rnd)

OkUlids(us) == [ok |-> TRUE, err |-> "", ulids |-> us]
ErrUlids(e) == [ok |-> FALSE, err |-> e, ulids |-> <<>>]

\* UlidEngine::generate
generate(now, seed) == OkUlids(<<Ulid_new(now, RandAt(seed, 1))>>)

\* UlidEngine::generate_with_timestamp
generate_with_timestamp(ts_ms, rnd) ==
    OkUlids(<<from_parts(ts_ms, Mask80(rnd))>>)

\* Mutant: the ceiling test is written `count >= 10_000`.
generate_bulk_off_by_one(count, now, seed) ==
    IF count = 0 THEN OkUlids(<<>>)
    ELSE IF count >= BULK_LIMIT THEN ErrUlids("InvalidInput")
    ELSE OkUlids([i \in 1..count |-> Ulid_new(now, RandAt(seed, i))])

\* UlidEngine::generate_bulk
generate_bulk(count, now, seed) ==
    IF count = 0 THEN OkUlids(<<>>)
    ELSE IF count > BULK_LIMIT THEN ErrUlids("InvalidInput")
    ELSE OkUlids([i \in 1..count |-> Ulid_new(now, RandAt(seed, i))])

----------------------------------------------------------------------------
(* UlidEngine::to_value and the `ulid generate` command *)

\* Ulid::to_bytes: the 128 bits as 16 big-endian bytes
U128Bits(u) == SubSeq(Bits(u), 3, 5 * ULID_LEN)

to_bytes(u) ==
    LET b == U128Bits(u)
    IN  [k \in 1..16 |->
            128 * b[8*k - 7] + 64 * b[8*k - 6] + 32 * b[8*k - 5] + 16 * b[8*k - 4]
            + 8 * b[8*k - 3] + 4 * b[8*k - 2] + 2 * b[8*k - 1] + b[8*k]]

StringValue(s) == [kind |-> "string", str |-> s, ts |-> <<>>, hex |-> <<>>, bytes |-> <<>>]
JsonValue(s, t, h) == [kind |-> "record", str |-> s, ts |-> t, hex |-> h, bytes |-> <<>>]
BinaryValue(b) == [kind |-> "binary", str |-> <<>>, ts |-> <<>>, hex |-> <<>>, bytes |-> b]

\* UlidEngine::to_value
to_value(ulid, format) ==
    IF format = "string" THEN StringValue(to_string(ulid))
    ELSE IF format = "json" THEN
        JsonValue(to_string(ulid), timestamp_ms(ulid), LowerHex(random(ulid)))
    ELSE BinaryValue(to_bytes(ulid))

None == [some |-> FALSE, v |-> <<>>]
Some(x) == [some |-> TRUE, v |-> <<x>>]
Get(o) == o.v[1]

\* parse_output_format
parse_output_format(format_str) ==
    IF ~format_str.some \/ Get(format_str) = "string" THEN [ok |-> TRUE, format |-> "string"]
    ELSE IF Get(format_str) = "json" THEN [ok |-> TRUE, format |-> "json"]
    ELSE IF Get(format_str) = "binary" THEN [ok |-> TRUE, format |-> "binary"]
    ELSE [ok |-> FALSE, format |-> ""]

CmdError(title) == [ok |-> FALSE, shape |-> "error", err |-> title, values |-> <<>>]
CmdValue(v) == [ok |-> TRUE, shape |-> "value", err |-> "", values |-> <<v>>]
CmdList(vs) == [ok |-> TRUE, shape |-> "list", err |-> "", values |-> vs]
CmdWarning(ctx) == [ok |-> TRUE, shape |-> "warning", err |-> "", values |-> <<StringValue(ctx)>>]

\* generate_single_ulid
generate_single_ulid(timestamp, format, now, seed) ==
    LET r == IF timestamp.some
             THEN generate_with_timestamp(Get(timestamp), RandAt(seed, 1))
             ELSE generate(now, seed)
    IN  IF ~r.ok THEN CmdError("Generation failed")
        ELSE CmdValue(to_value(r.ulids[1], format))

\* generate_bulk_ulids
generate_bulk_ulids(count, timestamp, format, now, seed) ==
    IF count < 0 THEN CmdError("Invalid count")
    ELSE IF count > MAX_BULK_GENERATION THEN CmdError("Count too large")
    ELSE
        LET r == IF timestamp.some
                 THEN OkUlids([i \in 1..count |->
                         generate_with_timestamp(Get(timestamp), RandAt(seed, i)).ulids[1]])
                 ELSE generate_bulk(count, now, seed)
        IN  IF ~r.ok THEN CmdError("Bulk generation failed")
            ELSE CmdList([i \in DOMAIN r.ulids |-> to_value(r.ulids[i], format)])

\* Mutant: --format is parsed before the context is looked at.
UlidGenerateCommand_run_format_first(count, timestamp, format_str, context, now, seed) ==
    LET f == parse_output_format(format_str)
    IN  IF ~f.ok THEN CmdError("Invalid format")
        ELSE IF context.some /\ is_security_sensitive_context(Get(context))
             THEN CmdWarning(Get(context))
             ELSE IF count.some
                  THEN generate_bulk_ulids(Get(count), timestamp, f.format, now, seed)
                  ELSE generate_single_ulid(timestamp, f.format, now, seed)

\* UlidGenerateCommand::run
UlidGenerateCommand_run(count, timestamp, format_str, context, now, seed) ==
    IF context.some /\ is_security_sensitive_context(Get(context))
    THEN CmdWarning(Get(context))
    ELSE
        LET f == parse_output_format(format_str)
        IN  IF ~f.ok THEN CmdError("Invalid format")
            ELSE IF count.some
                 THEN generate_bulk_ulids(Get(count), timestamp, f.format, now, seed)
                 ELSE generate_single_ulid(timestamp, f.format, now, seed)

----------------------------------------------------------------------------
(* `ulid sort`: the comparators and UlidSortCommand::run *)

\* A nu_protocol::Value: a string, an integer, or a record whose columns are
\* a sequence of <<name, value>> pairs.
StrVal(s) == [kind |-> "string", str |-> s, int |-> 0, cols |-> <<>>]
IntVal(n) == [kind |-> "int", str |-> <<>>, int |-> n, cols |-> <<>>]
RecVal(cols) == [kind |-> "record", str |-> <<>>, int |-> 0, cols |-> cols]

\* Ordering::reverse
reverse_ordering(o) ==
    IF o = "Less" THEN "Greater" ELSE IF o = "Greater" THEN "Less" ELSE "Equal"

\* str::cmp: lexicographic comparison of the bytes
RECURSIVE StrCmp(_, _)
StrCmp(a, b) ==
    IF a = <<>> /\ b = <<>> THEN "Equal"
    ELSE IF a = <<>> THEN "Less"
    ELSE IF b = <<>> THEN "Greater"
    ELSE IF Head(a) < Head(b) THEN "Less"
    ELSE IF Head(a) > Head(b) THEN "Greater"
    ELSE StrCmp(Tail(a), Tail(b))

\* extract_string_value
extract_string_value(value) ==
    IF value.kind = "string" THEN Some(value.str) ELSE None

\* extract_ulid_from_record: val.get(column).and_then(extract_string_value)
extract_ulid_from_record(value, column) ==
    IF value.kind = "record" /\ \E k \in DOMAIN value.cols : value.cols[k][1] = column
    THEN LET k == CHOOSE k \in DOMAIN value.cols :
                    /\ value.cols[k][1] = column
                    /\ \A j \in 1..(k - 1) : value.cols[j][1] # column
         IN  extract_string_value(value.cols[k][2])
    ELSE None

\* Mutant: a string that does not parse counts as the largest timestamp.
TimestampOrMax(s) ==
    IF extract_timestamp(s).ok THEN extract_timestamp(s).value ELSE U64Max

\* the timestamp compare_ulid_strings uses for a string: 0 when it does not parse
TimestampOrZero(s) ==
    IF extract_timestamp(s).ok THEN extract_timestamp(s).value ELSE ZeroU64

\* compare_ulid_strings
compare_ulid_strings(a, b, natural) ==
    IF natural THEN StrCmp(a, b)
    ELSE LET a_timestamp == TimestampOrZero(a)
             b_timestamp == TimestampOrZero(b)
             o == CmpDigits(a_timestamp, b_timestamp)
         IN  IF o = "Equal" THEN StrCmp(a, b) ELSE o

\* Mutant: only the (Some, None) arm looks at --reverse.
CompareOptions_half_flipped(a, b, natural, reverse) ==
    IF a.some /\ b.some THEN
        LET ordering == compare_ulid_strings(Get(a), Get(b), natural)
        IN  IF reverse THEN reverse_ordering(ordering) ELSE ordering
    ELSE IF a.some THEN (IF reverse THEN "Greater" ELSE "Less")
    ELSE IF b.some THEN "Greater"
    ELSE "Equal"

\* the match on (a, b) shared by both comparators
CompareOptions(a, b, natural, reverse) ==
    IF a.some /\ b.some THEN
        LET ordering == compare_ulid_strings(Get(a), Get(b), natural)
        IN  IF reverse THEN reverse_ordering(ordering) ELSE ordering
    ELSE IF a.some THEN (IF reverse THEN "Greater" ELSE "Less")
    ELSE IF b.some THEN (IF reverse THEN "Less" ELSE "Greater")
    ELSE "Equal"

\* compare_records_by_column
compare_records_by_column(a, b, column, natural, reverse) ==
    CompareOptions(extract_ulid_from_record(a, column),
                   extract_ulid_from_record(b, column), natural, reverse)

\* Mutant: the placement of values without a string ignores --reverse.
compare_ulid_values_unflipped(a, b, natural, reverse) ==
    LET a_str == extract_string_value(a)
        b_str == extract_string_value(b)
    IN  IF a_str.some /\ b_str.some THEN
            LET ordering == compare_ulid_strings(Get(a_str), Get(b_str), natural)
            IN  IF reverse THEN reverse_ordering(ordering) ELSE ordering
        ELSE IF a_str.some THEN "Less"
        ELSE IF b_str.some THEN "Greater"
        ELSE "Equal"

\* compare_ulid_values
compare_ulid_values(a, b, natural, reverse) ==
    CompareOptions(extract_string_value(a), extract_string_value(b), natural, reverse)

\* the closure handed to sort_by
Comparator(a, b, column, natural, reverse) ==
    IF column.some
    THEN compare_records_by_column(a, b, Get(column), natural, reverse)
    ELSE compare_ulid_values(a, b, natural, reverse)

\* slice::sort_by, a stable sort (insertion sort on short slices): each
\* element is moved left past the elements that compare Greater than it.
RECURSIVE InsertSorted(_, _, _, _, _)
InsertSorted(sorted, x, column, natural, reverse) ==
    IF sorted = <<>> THEN <<x>>
    ELSE LET last == sorted[Len(sorted)]
         IN  IF Comparator(last, x, column, natural, reverse) = "Greater"
             THEN InsertSorted(SubSeq(sorted, 1, Len(sorted) - 1), x,
                               column, natural, reverse) \o <<last>>
             ELSE sorted \o <<x>>

RECURSIVE sort_by(_, _, _, _)
sort_by(vals, column, natural, reverse) ==
    IF vals = <<>> THEN <<>>
    ELSE InsertSorted(sort_by(SubSeq(vals, 1, Len(vals) - 1), column, natural, reverse),
                      vals[Len(vals)], column, natural, reverse)

\* PipelineData
ListInput(vs) == [kind |-> "list", vals |-> vs]
EmptyInput == [kind |-> "empty", vals |-> <<>>]
ValueInput(v) == [kind |-> "value", vals |-> <<v>>]

\* UlidSortCommand::run on PipelineData: a list, Empty, or another value
UlidSortCommand_run(pipeline, column, natural, reverse) ==
    IF pipeline.kind = "list"
    THEN [ok |-> TRUE, kind |-> "list",
          vals |-> sort_by(pipeline.vals, column, natural, reverse)]
    ELSE IF pipeline.kind = "empty"
    THEN [ok |-> TRUE, kind |-> "empty", vals |-> <<>>]
    ELSE [ok |-> FALSE, kind |-> "Invalid input", vals |-> <<>>]

\* the state of the sort variables before any run
NoSortInput == [pipeline |-> EmptyInput, column |-> None]
NoRun == [ran |-> FALSE, ok |-> FALSE, kind |-> "", vals |-> <<>>]
NoSortOutput == [f \in BOOLEAN \X BOOLEAN |-> NoRun]

----------------------------------------------------------------------------
(* `ulid stream`: per-item processing, batching and UlidStreamCommand::run *)

\* Values produced by the stream commands: a kind and its payload
BoolVal(b) == [kind |-> "bool", v |-> <<b>>]
I64Val(n) == [kind |-> "int", v |-> <<n>>]
TextVal(s) == [kind |-> "string", v |-> <<s>>]
RecordVal(fields) == [kind |-> "record", v |-> fields]

\* LabeledError::new(msg).with_label(label, span)
LabeledError(msg, label) == [msg |-> msg, label |-> label]
NoError == LabeledError("", <<>>)

ItemOk(v) == [ok |-> TRUE, value |-> v, err |-> NoError]
ItemErr(e) == [ok |-> FALSE, value |-> BoolVal(FALSE), err |-> e]

\* Record::get: the value of the first column carrying the name
RecordGet(cols, name) ==
    IF \E k \in DOMAIN cols : cols[k][1] = name
    THEN LET k == CHOOSE k \in DOMAIN cols :
                    /\ cols[k][1] = name
                    /\ \A j \in 1..(k - 1) : cols[j][1] # name
         IN  Some(cols[k][2])
    ELSE None

\* the field names extract_ulid_string tries, in order
ULID_FIELD_NAMES == <<"ulid", "id", "identifier", "uuid">>

\* extract_ulid_string
extract_ulid_string(value) ==
    IF value.kind = "string" THEN [ok |-> TRUE, str |-> value.str, err |-> NoError]
    ELSE IF value.kind = "record" THEN
        LET hit(i) == LET f == RecordGet(value.cols, ULID_FIELD_NAMES[i])
                      IN  f.some /\ Get(f).kind = "string"
        IN  IF \E i \in DOMAIN ULID_FIELD_NAMES : hit(i)
            THEN LET i == CHOOSE i \in DOMAIN ULID_FIELD_NAMES :
                            hit(i) /\ \A j \in 1..(i - 1) : ~hit(j)
                 IN  [ok |-> TRUE,
                      str |-> Get(RecordGet(value.cols, ULID_FIELD_NAMES[i])).str,
                      err |-> NoError]
            ELSE [ok |-> FALSE, str |-> <<>>,
                  err |-> LabeledError("No ULID field found", <<>>)]
    ELSE [ok |-> FALSE, str |-> <<>>, err |-> LabeledError("Invalid value type", <<>>)]

\* long division of a big-endian base-32 number by a small divisor
RECURSIVE DivDigits(_, _, _)
DivDigits(ds, d, carry) ==
    IF ds = <<>> THEN [quot |-> <<>>, rem |-> carry]
    ELSE LET cur == carry * 32 + Head(ds)
             rest == DivDigits(Tail(ds), d, cur % d)
         IN  [quot |-> <<cur \div d>> \o rest.quot, rem |-> rest.rem]

\* UlidEngine::components_to_value: {ulid, timestamp {ms, iso8601, unix},
\* randomness {hex}, valid}; the iso8601 text is kept as the seconds and
\* milliseconds it is formatted from.
components_to_value(components) ==
    LET qr == DivDigits(components.timestamp_ms, 1000, 0)
    IN  RecordVal(<< <<"ulid", components.ulid>>,
                    <<"timestamp.ms", components.timestamp_ms>>,
                    <<"timestamp.iso8601", <<qr.quot, qr.rem>> >>,
                    <<"timestamp.unix", qr.quot>>,
                    <<"randomness.hex", components.randomness_hex>>,
                    <<"valid", components.valid>> >>)

\* UlidError::to_string for InvalidFormat: "Invalid ULID format '{input}': {reason}"
ErrorText(e) == <<"Invalid ULID format", e.input, e.reason>>

\* the "parse" arm, components being the outcome of UlidEngine::parse
parse_arm(components, output_format) ==
    IF ~components.ok
    THEN ItemErr(LabeledError("Parse failed", ErrorText(components)))
    ELSE IF output_format = "compact" THEN
        ItemOk(RecordVal(<< <<"ulid", components.ulid>>,
                           <<"timestamp_ms", components.timestamp_ms>>,
                           <<"randomness", components.randomness_hex>> >>))
    ELSE IF output_format = "timestamp-only"
    THEN ItemOk(I64Val(components.timestamp_ms))
    ELSE ItemOk(components_to_value(components))

\* the "extract-timestamp" arm, timestamp being the outcome of
\* UlidEngine::extract_timestamp
extract_timestamp_arm(timestamp) ==
    IF ~timestamp.ok
    THEN ItemErr(LabeledError("Timestamp extraction failed", ErrorText(timestamp)))
    ELSE ItemOk(I64Val(timestamp.value))

\* the "transform" arm, valid being the outcome of UlidEngine::validate
transform_arm(valid, ulid_str, output_format) ==
    IF ~valid
    THEN ItemErr(LabeledError("Invalid ULID", <<"is not a valid ULID", ulid_str>>))
    ELSE IF output_format = "compact"
    THEN ItemOk(RecordVal(<< <<"ulid", ulid_str>> >>))
    ELSE ItemOk(TextVal(ulid_str))

\* `match operation` on the extracted string
match_operation(ulid_str, operation, output_format) ==
    IF operation = "validate" THEN ItemOk(BoolVal(validate(ulid_str)))
    ELSE IF operation = "parse" THEN parse_arm(parse(ulid_str), output_format)
    ELSE IF operation = "extract-timestamp"
    THEN extract_timestamp_arm(extract_timestamp(ulid_str))
    ELSE IF operation = "transform"
    THEN transform_arm(validate(ulid_str), ulid_str, output_format)
    ELSE ItemErr(LabeledError("Invalid operation", <<"Unknown operation", operation>>))

\* `extract_ulid_string(value)?`, x being its outcome
with_ulid_string(x, operation, output_format) ==
    IF ~x.ok THEN ItemErr(x.err)
    ELSE match_operation(x.str, operation, output_format)

\* process_single_item
process_single_item(value, operation, output_format) ==
    with_ulid_string(extract_ulid_string(value), operation, output_format)

\* the record {error, input} pushed for a failing item under --continue-on-error
ErrorRecord(e, value) == RecordVal(<< <<"error", e.msg>>, <<"input", value>> >>)

BatchOk(vs) == [ok |-> TRUE, vals |-> vs, err |-> NoError]
BatchErr(e) == [ok |-> FALSE, vals |-> <<>>, err |-> e]

\* results.push(here), followed by the results of the remaining iterations
Pushed(here, rest) == IF rest.ok THEN BatchOk(<<here>> \o rest.vals) ELSE rest

RECURSIVE process_batch_sequential(_, _, _, _)
\* one iteration of the loop of process_batch_sequential, on the first item
\* of batch, r being the outcome of process_single_item for it
batch_iteration(r, batch, operation, output_format, continue_on_error) ==
    IF ~r.ok /\ ~continue_on_error THEN BatchErr(r.err)
    ELSE Pushed(IF r.ok THEN r.value ELSE ErrorRecord(r.err, Head(batch)),
                process_batch_sequential(Tail(batch), operation, output_format,
                                         continue_on_error))

\* process_batch_sequential: the loop over the batch, from its first item
process_batch_sequential(batch, operation, output_format, continue_on_error) ==
    IF batch = <<>> THEN BatchOk(<<>>)
    ELSE batch_iteration(process_single_item(Head(batch), operation, output_format),
                         batch, operation, output_format, continue_on_error)

\* Mutant: the parallel path handles the batch from its last item to its first.
RECURSIVE process_batch_reversed(_, _, _, _)
process_batch_reversed(batch, operation, output_format, continue_on_error) ==
    IF batch = <<>> THEN BatchOk(<<>>)
    ELSE LET last == batch[Len(batch)]
             r == process_single_item(last, operation, output_format) IN
         IF ~r.ok /\ ~continue_on_error THEN BatchErr(r.err)
         ELSE LET rest == process_batch_reversed(SubSeq(batch, 1, Len(batch) - 1),
                                                 operation, output_format,
                                                 continue_on_error)
                  here == IF r.ok THEN r.value ELSE ErrorRecord(r.err, last)
              IN  IF rest.ok THEN BatchOk(rest.vals \o <<here>>) ELSE rest

\* process_batch_parallel: "implement as sequential"
process_batch_parallel(batch, operation, output_format, continue_on_error) ==
    process_batch_sequential(batch, operation, output_format, continue_on_error)

\* a chunk is handed to the parallel path when it has more items than this
PARALLEL_MIN == 10
\* batch size used when --batch-size is absent
DEFAULT_BATCH_SIZE == 1000

\* `batch_size as usize` compared with a slice length n: a negative i64
\* becomes a usize of at least 2^63, larger than the length of any slice.
ChunkLen(batch_size, n) ==
    IF batch_size < 0 \/ batch_size > n THEN n ELSE batch_size

StreamList(vs) == [kind |-> "list", vals |-> vs, err |-> NoError]
StreamEmpty == [kind |-> "empty", vals |-> <<>>, err |-> NoError]
StreamError(e) == [kind |-> "error", vals |-> <<>>, err |-> e]
\* the plugin process aborts (attempt to divide by zero in div_ceil)
StreamPanic == [kind |-> "panic", vals |-> <<>>, err |-> NoError]

\* the body of the loop over chunks: the path a chunk takes
process_chunk(chunk, operation, output_format, parallel, continue_on_error) ==
    IF parallel /\ Len(chunk) > PARALLEL_MIN
    THEN process_batch_parallel(chunk, operation, output_format, continue_on_error)
    ELSE process_batch_sequential(chunk, operation, output_format, continue_on_error)

\* results.extend(batch_results), followed by the results of the later chunks
Extended(vals, rest) == IF rest.ok THEN BatchOk(vals \o rest.vals) ELSE rest

RECURSIVE ProcessChunks(_, _, _, _, _, _)
\* `let batch_results = ...?;` and the remaining chunks
chunk_iteration(batch_results, remaining, operation, batch_size, output_format, parallel, continue_on_error) ==
    IF ~batch_results.ok THEN batch_results
    ELSE Extended(batch_results.vals,
                  ProcessChunks(remaining, operation, batch_size, output_format,
                                parallel, continue_on_error))

\* the first chunk of vals has n items
first_chunk(n, vals, operation, batch_size, output_format, parallel, continue_on_error) ==
    chunk_iteration(process_chunk(SubSeq(vals, 1, n), operation, output_format,
                                  parallel, continue_on_error),
                    SubSeq(vals, n + 1, Len(vals)), operation, batch_size,
                    output_format, parallel, continue_on_error)

\* the loop of process_stream over input_vals.chunks(batch_size)
ProcessChunks(vals, operation, batch_size, output_format, parallel, continue_on_error) ==
    IF vals = <<>> THEN BatchOk(<<>>)
    ELSE first_chunk(ChunkLen(batch_size, Len(vals)), vals, operation, batch_size,
                     output_format, parallel, continue_on_error)

\* Ok(PipelineData::Value(Value::list(results))) or the error of a batch
stream_result(r) == IF r.ok THEN StreamList(r.vals) ELSE StreamError(r.err)

\* process_stream
process_stream(input_vals, operation, batch_size, output_format, parallel, continue_on_error) ==
    IF input_vals = <<>> THEN StreamList(<<>>)
    ELSE IF batch_size = 0 THEN StreamPanic      \* len().div_ceil(0)
    ELSE stream_result(ProcessChunks(input_vals, operation, batch_size,
                                     output_format, parallel, continue_on_error))

\* UlidStreamCommand::run
UlidStreamCommand_run(pipeline, operation, batch_size, output_format, parallel, continue_on_error) ==
    LET size == IF batch_size.some THEN Get(batch_size) ELSE DEFAULT_BATCH_SIZE
        format == IF output_format.some THEN Get(output_format) ELSE "full"
    IN  IF pipeline.kind = "list"
        THEN process_stream(pipeline.vals, operation, size, format, parallel,
                            continue_on_error)
        ELSE IF pipeline.kind = "empty" THEN StreamEmpty
        ELSE StreamError(LabeledError("Invalid input", <<>>))

----------------------------------------------------------------------------
(* `ulid generate-stream`: UlidGenerateStreamCommand::run and its batches *)

\* ceiling of `ulid generate-stream count`
STREAM_LIMIT == 100000

\* adding a small number to a big-endian base-32 number, carry out of the top
RECURSIVE AddDigits(_, _)
AddDigits(ds, n) ==
    IF ds = <<>> THEN [digits |-> <<>>, carry |-> n]
    ELSE LET s == ds[Len(ds)] + n
             rest == AddDigits(SubSeq(ds, 1, Len(ds) - 1), s \div 32)
         IN  [digits |-> rest.digits \o <<s % 32>>, carry |-> rest.carry]

\* u64 addition of a small number: the sum modulo 2^64, and whether it
\* overflowed (the top digit of a u64 holds 4 bits)
AddU64(x, n) ==
    LET r == AddDigits(x, n)
        top == r.digits[1] + 32 * r.carry
    IN  [value |-> <<top % 16>> \o Tail(r.digits), overflow |-> top >= 16]

GsList(vs) == [kind |-> "list", vals |-> vs, err |-> NoError]
GsError(e) == [kind |-> "error", vals |-> <<>>, err |-> e]
\* the plugin process aborts (attempt to add with overflow)
GsPanic == [kind |-> "panic", vals |-> <<>>, err |-> NoError]

\* generate_batch_with_timestamps: `count` identifiers from *base_timestamp,
\* which is advanced by 1 after each one when unique_timestamps is set.  The
\* addition panics on overflow in a build with overflow checks and wraps in
\* a build without.  `drawn` random numbers were used by earlier batches.
generate_batch_with_timestamps(count, base_timestamp, unique_timestamps, seed, drawn, overflow_checks) ==
    LET step == IF unique_timestamps THEN 1 ELSE 0
        last == AddU64(base_timestamp, step * count)
    IN  IF last.overflow /\ overflow_checks
        THEN [kind |-> "panic", vals |-> <<>>, err |-> NoError,
              base_timestamp |-> base_timestamp]
        ELSE [kind |-> "list",
              vals |-> [i \in 1..count |->
                  TextVal(to_string(generate_with_timestamp(
                      AddU64(base_timestamp, step * (i - 1)).value,
                      RandAt(seed, drawn + i)).ulids[1]))],
              err |-> NoError,
              base_timestamp |-> last.value]

\* generate_batch_random
generate_batch_random(count, now, seed) ==
    LET ulids == generate_bulk(count, now, seed)
    IN  IF ~ulids.ok
        THEN GsError(LabeledError("Bulk generation failed", <<ulids.err>>))
        ELSE GsList([i \in DOMAIN ulids.ulids |-> TextVal(to_string(ulids.ulids[i]))])

\* the loop of run over the batches: `done` identifiers are already in results
RECURSIVE GenerateBatches(_, _, _, _, _, _, _, _, _)
GenerateBatches(count, batch_size, current_timestamp, unique_timestamps, now, tick, seed, overflow_checks, done) ==
    IF done >= count THEN GsList(<<>>)
    ELSE LET remaining == count - done
             current_batch_size == IF remaining < batch_size THEN remaining
                                   ELSE batch_size
             batch_results ==
                 IF current_timestamp.some
                 THEN generate_batch_with_timestamps(
                          current_batch_size, Get(current_timestamp),
                          unique_timestamps, seed, done, overflow_checks)
                 ELSE generate_batch_random(current_batch_size, now,
                                            RandAt(seed, done))
         IN  IF batch_results.kind = "panic" THEN GsPanic
             ELSE IF batch_results.kind = "error" THEN GsError(batch_results.err)
             ELSE LET rest == GenerateBatches(
                          count, batch_size,
                          IF current_timestamp.some
                          THEN Some(batch_results.base_timestamp) ELSE None,
                          unique_timestamps,
                          IF tick = 0 THEN now ELSE AddU64(now, tick).value,
                          tick, seed,
                          overflow_checks, done + current_batch_size)
                  IN  IF rest.kind = "list"
                      THEN GsList(batch_results.vals \o rest.vals)
                      ELSE rest

\* UlidGenerateStreamCommand::run; base_timestamp is the i64 flag as the
\* bit pattern `t as u64` keeps
UlidGenerateStreamCommand_run(count, batch_size, base_timestamp, unique_timestamps, now, tick, seed, overflow_checks) ==
    IF count < 0 THEN GsError(LabeledError("Invalid count", <<>>))
    ELSE IF count > STREAM_LIMIT THEN GsError(LabeledError("Count too large", <<>>))
    ELSE LET given == IF batch_size.some THEN Get(batch_size) ELSE DEFAULT_BATCH_SIZE
             size == IF given < 1 THEN 1 ELSE given       \* .max(1)
         IN  GenerateBatches(count, size, base_timestamp, unique_timestamps,
                             now, tick, seed, overflow_checks, 0)

----------------------------------------------------------------------------
(* `ulid time parse` and `ulid time millis` on integer and float input     *)
(*                                                                         *)
(* An i64 is kept here as a sign and a magnitude of TIME_WIDTH base-32     *)
(* digits (75 bits, enough for the exact product of an i64 and 1000).  A   *)
(* float input is a non-negative value whole + thousandths/1000; the       *)
(* explored floats are exactly representable as f64 and so are the         *)
(* products the commands form, so the arithmetic below is the f64          *)
(* arithmetic of the code on them.                                         *)

TIME_WIDTH == 15

I64(neg, mag) == [neg |-> neg, mag |-> mag]
ZeroMag == Repeat(0, TIME_WIDTH)

\* 2^63, the magnitude of i64::MIN
TWO63 == <<0,0,8,0,0,0,0,0,0,0,0,0,0,0,0>>

\* const TIMESTAMP_MILLIS_THRESHOLD: i64 = 1_000_000_000_000
TIMESTAMP_MILLIS_THRESHOLD == I64(FALSE, <<0,0,0,0,0,0,0,29,3,10,10,10,4,0,0>>)

\* the instants chrono's DateTime<Utc> can hold, in seconds since the epoch:
\* -8_334_601_228_800 ..= 8_210_266_876_799
CHRONO_MAX_SECS == <<0,0,0,0,0,0,7,14,30,13,0,20,26,27,31>>
CHRONO_MIN_SECS == <<0,0,0,0,0,0,7,18,18,6,15,4,4,16,0>>

\* a > b on i64
I64Greater(a, b) ==
    IF a.neg # b.neg THEN b.neg
    ELSE IF a.neg THEN CmpDigits(a.mag, b.mag) = "Less"
    ELSE CmpDigits(a.mag, b.mag) = "Greater"

\* digits times a small factor, carry out of the top
RECURSIVE MulDigits(_, _, _)
MulDigits(ds, m, carry) ==
    IF ds = <<>> THEN [digits |-> <<>>, carry |-> carry]
    ELSE LET s == ds[Len(ds)] * m + carry
             rest == MulDigits(SubSeq(ds, 1, Len(ds) - 1), m, s \div 32)
         IN  [digits |-> rest.digits \o <<s % 32>>, carry |-> rest.carry]

\* the low 64 bits of a magnitude, and two's complement negation in 64 bits
Mod64(mag) == <<0, 0, mag[3] % 16>> \o SubSeq(mag, 4, TIME_WIDTH)
Complement64(p) ==
    <<0, 0, 15 - (p[3] % 16)>> \o [k \in 1..(TIME_WIDTH - 3) |-> 31 - p[k + 3]]
Neg64(p) == Mod64(AddDigits(Complement64(p), 1).digits)

\* the i64 whose two's complement bit pattern is p
FromPattern(p) ==
    IF CmpDigits(p, TWO63) = "Less" THEN I64(FALSE, p) ELSE I64(TRUE, Neg64(p))

\* the exact product v * m of an i64 and a small positive factor
ExactMul(v, m) ==
    LET prod == MulDigits(v.mag, m, 0).digits
    IN  I64(v.neg /\ prod # ZeroMag, prod)

FitsI64(v) == CmpDigits(v.mag, TWO63) = "Less" \/ (v.neg /\ v.mag = TWO63)

\* `val * 1000` on i64: exact when it fits; otherwise a panic in a build
\* with overflow checks and the product modulo 2^64 in a build without
mul_i64(v, m, overflow_checks) ==
    LET exact == ExactMul(v, m)
    IN  IF FitsI64(exact) THEN [panic |-> FALSE, value |-> exact]
        ELSE IF overflow_checks THEN [panic |-> TRUE, value |-> I64(FALSE, ZeroMag)]
        ELSE [panic |-> FALSE,
              value |-> FromPattern(IF v.neg THEN Neg64(Mod64(exact.mag))
                                    ELSE Mod64(exact.mag))]

\* a DateTime<Utc> is kept as its milliseconds since the epoch
NoDateTime == [some |-> FALSE, millis |-> I64(FALSE, ZeroMag)]
DateTimeAt(ms) == [some |-> TRUE, millis |-> ms]

SecsInRange(secs) ==
    IF secs.neg THEN CmpDigits(secs.mag, CHRONO_MIN_SECS) # "Greater"
    ELSE CmpDigits(secs.mag, CHRONO_MAX_SECS) # "Greater"

\* floor(ms / 1000)
FloorSecs(ms) ==
    LET qr == DivDigits(ms.mag, 1000, 0)
    IN  IF ~ms.neg THEN I64(FALSE, qr.quot)
        ELSE IF qr.rem = 0 THEN I64(qr.quot # ZeroMag, qr.quot)
        ELSE I64(TRUE, AddDigits(qr.quot, 1).digits)

\* Utc.timestamp_opt(secs, nanos).single(), nanos given in milliseconds;
\* only called here with secs >= 0 or nanos = 0
timestamp_opt(secs, thousandths) ==
    IF ~SecsInRange(secs) THEN NoDateTime
    ELSE LET ms == ExactMul(secs, 1000)
         IN  DateTimeAt(I64(ms.neg, AddDigits(ms.mag, thousandths).digits))

\* Utc.timestamp_millis_opt(millis).single()
timestamp_millis_opt(millis) ==
    IF ~SecsInRange(FloorSecs(millis)) THEN NoDateTime ELSE DateTimeAt(millis)

\* the positional argument: Value::Int, Value::Float, another Value, or none
TimeInt(v) == [kind |-> "int", int |-> v, float |-> <<>>]
TimeFloat(whole, thousandths) ==
    [kind |-> "float", int |-> <<>>,
     float |-> [whole |-> whole, thousandths |-> thousandths]]
TimeOther == [kind |-> "bool", int |-> <<>>, float |-> <<>>]

\* val > TIMESTAMP_MILLIS_THRESHOLD as f64
FloatAboveThreshold(f) ==
    LET c == CmpDigits(f.whole, TIMESTAMP_MILLIS_THRESHOLD.mag)
    IN  c = "Greater" \/ (c = "Equal" /\ f.thousandths > 0)

ParseOk(datetime) ==
    [ok |-> TRUE, err |-> "", unix_seconds |-> FloorSecs(datetime.millis),
     unix_millis |-> datetime.millis]
ParseErr(e) ==
    [ok |-> FALSE, err |-> e, unix_seconds |-> I64(FALSE, ZeroMag),
     unix_millis |-> I64(FALSE, ZeroMag)]

\* UlidTimeParseCommand::run; of the record it returns, unix_seconds and
\* unix_millis are kept (the other fields are renderings of the same datetime)
UlidTimeParseCommand_run(timestamp) ==
    IF timestamp.kind = "int" THEN
        LET val == timestamp.int
            datetime == IF I64Greater(val, TIMESTAMP_MILLIS_THRESHOLD)
                        THEN timestamp_millis_opt(val)
                        ELSE timestamp_opt(val, 0)
        IN  IF datetime.some THEN ParseOk(datetime) ELSE ParseErr("Invalid timestamp")
    ELSE IF timestamp.kind = "float" THEN
        LET val == timestamp.float
            seconds == I64(FALSE, val.whole)                \* val.trunc() as i64
            datetime == timestamp_opt(seconds, val.thousandths)
        IN  IF datetime.some THEN ParseOk(datetime) ELSE ParseErr("Invalid timestamp")
    ELSE IF timestamp.kind = "none" THEN ParseErr("Missing required positional")
    ELSE ParseErr("Invalid input type")

MillisOk(v) == [kind |-> "int", value |-> v, err |-> ""]
MillisErr(e) == [kind |-> "error", value |-> I64(FALSE, ZeroMag), err |-> e]
\* the plugin process aborts (attempt to multiply with overflow)
MillisPanic == [kind |-> "panic", value |-> I64(FALSE, ZeroMag), err |-> ""]

\* UlidTimeMillisCommand::run
UlidTimeMillisCommand_run(timestamp, now, overflow_checks) ==
    IF timestamp.kind = "none" THEN MillisOk(now)      \* Utc::now().timestamp_millis()
    ELSE IF timestamp.kind = "int" THEN
        LET val == timestamp.int IN
        IF I64Greater(val, TIMESTAMP_MILLIS_THRESHOLD) THEN MillisOk(val)
        ELSE LET p == mul_i64(val, 1000, overflow_checks)
             IN  IF p.panic THEN MillisPanic ELSE MillisOk(p.value)
    ELSE IF timestamp.kind = "float" THEN
        LET val == timestamp.float IN
        IF FloatAboveThreshold(val)
        THEN MillisOk(I64(FALSE, val.whole))                         \* val as i64
        ELSE MillisOk(I64(FALSE, AddDigits(MulDigits(val.whole, 1000, 0).digits,
                                           val.thousandths).digits)) \* (val * 1000.0) as i64
    ELSE MillisErr("Invalid input type")

----------------------------------------------------------------------------
(* `ulid hash blake3` and `ulid hash random` *)

\* default of --length, and the largest accepted length
DEFAULT_HASH_LENGTH == 32
MAX_HASH_LENGTH == 1024

\* `length as usize` compared with a bound: usize has 64 bits, so a negative
\* i64 becomes a usize of at least 2^63 and exceeds the bound.
UsizeExceeds(n, bound) == n < 0 \/ n > bound

\* hex::encode: two lower-case hex characters per byte
hex_encode(bytes) ==
    [k \in 1..(2 * Len(bytes)) |->
        LET b == bytes[(k + 1) \div 2]
        IN  HEX[(IF k % 2 = 1 THEN b \div 16 ELSE b % 16) + 1]]

\* the data handed to a hashing command: a string or binary value (its
\* bytes), or a value of another type
DataBytes(bs) == [kind |-> "bytes", bytes |-> bs]
DataOther == [kind |-> "other", bytes |-> <<>>]

\* Blake3Hasher::update(data) and finalize_xof().fill(hash): bytes determined
\* by the data, as many as the buffer holds (a stand-in for the BLAKE3
\* function, which the program takes from the blake3 crate)
blake3_xof(data, output_length) ==
    [i \in 1..output_length |->
        (17 * Len(data) + (IF data = <<>> THEN 0 ELSE data[1 + (i % Len(data))]) + 31 * i)
            % 256]

\* rng.fill_bytes(bytes): byte_count bytes drawn from the RNG
fill_bytes(seed, byte_count) == [i \in 1..byte_count |-> (seed + 97 * i) % 256]

HashString(s) == [kind |-> "string", bytes |-> s, err |-> ""]
HashBinary(bs) == [kind |-> "binary", bytes |-> bs, err |-> ""]
HashError(e) == [kind |-> "error", bytes |-> <<>>, err |-> e]

\* UlidHashBlake3Command::run; positional is the optional argument,
\* pipeline the pipeline input used when there is no argument
UlidHashBlake3Command_run(length, binary_output, positional, pipeline) ==
    LET output_length == IF length.some THEN Get(length) ELSE DEFAULT_HASH_LENGTH
        arg == IF positional.some THEN Get(positional) ELSE pipeline
    IN  IF output_length = 0 \/ UsizeExceeds(output_length, MAX_HASH_LENGTH)
        THEN HashError("Invalid output length")
        ELSE IF arg.kind # "bytes" THEN HashError("Invalid input type")
        ELSE LET hash == blake3_xof(arg.bytes, output_length)
             IN  IF binary_output THEN HashBinary(hash)
                 ELSE HashString(hex_encode(hash))

\* Mutant: a length of zero is let through.
UlidHashRandomCommand_run_zero_allowed(length, binary_output, seed) ==
    LET byte_count == IF length.some THEN Get(length) ELSE DEFAULT_HASH_LENGTH
    IN  IF UsizeExceeds(byte_count, MAX_HASH_LENGTH) THEN HashError("Invalid length")
        ELSE LET bytes == fill_bytes(seed, byte_count)
             IN  IF binary_output THEN HashBinary(bytes)
                 ELSE HashString(hex_encode(bytes))

\* UlidHashRandomCommand::run
UlidHashRandomCommand_run(length, binary_output, seed) ==
    LET byte_count == IF length.some THEN Get(length) ELSE DEFAULT_HASH_LENGTH
    IN  IF byte_count = 0 \/ UsizeExceeds(byte_count, MAX_HASH_LENGTH)
        THEN HashError("Invalid length")
        ELSE LET bytes == fill_bytes(seed, byte_count)
             IN  IF binary_output THEN HashBinary(bytes)
                 ELSE HashString(hex_encode(bytes))

----------------------------------------------------------------------------
(* `ulid validate`, `ulid parse`, and the plugin serving invocations *)

\* UlidValidateCommand::run
UlidValidateCommand_run(ulid_str, detailed) ==
    IF detailed
    THEN LET validation_result == validate_detailed(ulid_str)
         IN  RecordVal(<< <<"valid", BoolVal(validation_result.valid)>>,
                          <<"length", validation_result.length>>,
                          <<"charset_valid", BoolVal(validation_result.charset_valid)>>,
                          <<"timestamp_valid", BoolVal(validation_result.timestamp_valid)>>,
                          <<"errors", validation_result.errors>> >>)
    ELSE BoolVal(validate(ulid_str))

\* UlidParseCommand::run
UlidParseCommand_run(ulid_str) == parse_arm(parse(ulid_str), "full")

\* the commands that read the process RNG (through Ulid::new or rand::rng)
GENERATING == {"ulid generate", "ulid hash random"}

\* the generator state after an invocation: a generating command draws from
\* the process RNG, the other commands never touch it
rng_after(cmd, state) == IF cmd \in GENERATING THEN RandAt(state, 1) ELSE state

\* Mutant: `ulid hash blake3` keys the hash with a value drawn from the
\* process RNG.
PluginCommand_run_random_key(call, state, now) ==
    IF call.cmd = "ulid validate" THEN UlidValidateCommand_run(call.text, call.flag)
    ELSE IF call.cmd = "ulid parse" THEN UlidParseCommand_run(call.text)
    ELSE IF call.cmd = "ulid sort"
    THEN UlidSortCommand_run(ListInput(call.vals), None, FALSE, call.flag)
    ELSE IF call.cmd = "ulid stream"
    THEN UlidStreamCommand_run(ListInput(call.vals), call.option, None, None, FALSE,
                               call.flag)
    ELSE IF call.cmd = "ulid generate --context"
    THEN UlidGenerateCommand_run(None, None, None, Some(call.text), now, state)
    ELSE IF call.cmd = "ulid hash blake3"
    THEN UlidHashBlake3Command_run(None, call.flag,
                                   Some(DataBytes(<<state[ULID_LEN]>> \o call.text)),
                                   DataOther)
    ELSE IF call.cmd = "ulid generate"
    THEN UlidGenerateCommand_run(None, None, None, None, now, state)
    ELSE UlidHashRandomCommand_run(None, call.flag, state[ULID_LEN])

\* The command the plugin dispatches an invocation to, run on the
\* invocation's arguments and input; state is the process RNG and now the
\* clock, which only the generating commands read.
PluginCommand_run(call, state, now) ==
    IF call.cmd = "ulid validate" THEN UlidValidateCommand_run(call.text, call.flag)
    ELSE IF call.cmd = "ulid parse" THEN UlidParseCommand_run(call.text)
    ELSE IF call.cmd = "ulid sort"
    THEN UlidSortCommand_run(ListInput(call.vals), None, FALSE, call.flag)
    ELSE IF call.cmd = "ulid stream"
    THEN UlidStreamCommand_run(ListInput(call.vals), call.option, None, None, FALSE,
                               call.flag)
    ELSE IF call.cmd = "ulid generate --context"
    THEN UlidGenerateCommand_run(None, None, None, Some(call.text), now, state)
    ELSE IF call.cmd = "ulid hash blake3"
    THEN UlidHashBlake3Command_run(None, call.flag, Some(DataBytes(call.text)), DataOther)
    ELSE IF call.cmd = "ulid generate"
    THEN UlidGenerateCommand_run(None, None, None, None, now, state)
    ELSE UlidHashRandomCommand_run(None, call.flag, state[ULID_LEN])

----------------------------------------------------------------------------
(* Engine specification: one input string, each engine function applied to it *)

\* '!', '0', '7', '8', 'I', 'Z', 'a'
SampleChars == {33, 48, 55, 56, 73, 90, 97}
\* '0', 'Z'
FillChars == {48, 90}

InputLengths == (0..MaxShort) \cup ((ULID_LEN - 1)..(ULID_LEN + 1))

\* strings made of a short head and a filler
PatternStrings ==
    {h \o Repeat(f, n - Len(h)) :
        <<h, f, n>> \in {t \in SeqsUpTo(SampleChars, MaxHead) \X FillChars \X InputLengths :
                            Len(t[1]) <= t[3]}}

\* "01AN4Z07BY79KA1307SR9X4MV3": timestamp 1465824320894
UlidA == <<48,49,65,78,52,90,48,55,66,89,55,57,75,65,49,51,48,55,83,82,57,88,52,77,86,51>>
\* "01AN4Z07BZ79KA1307SR9X4MV4": one millisecond later
UlidB == <<48,49,65,78,52,90,48,55,66,90,55,57,75,65,49,51,48,55,83,82,57,88,52,77,86,52>>
\* "01AN4Z07BY" followed by sixteen 'Z', and by sixteen 'z'
UlidATailZ == SubSeq(UlidA, 1, TIME_DIGITS) \o Repeat(90, RAND_DIGITS)
UlidATailLower == SubSeq(UlidA, 1, TIME_DIGITS) \o Repeat(122, RAND_DIGITS)

\* the known identifiers, with other tails and in lower case
KnownStrings == {UlidA, UlidB, UlidATailZ, UlidATailLower, to_lowercase(UlidA)}

InputStrings == PatternStrings \cup KnownStrings

NotCalled == [called |-> FALSE, out |-> <<>>]
NoCall == [op |-> "none", count |-> None, timestamp |-> None, format |-> None,
           context |-> None]
NoResult == [ok |-> FALSE, shape |-> "none", err |-> "", ulids |-> <<>>, values |-> <<>>]
Called(x) == [called |-> TRUE, out |-> <<x>>]
Out(r) == r.out[1]

\* the state of the variables of the other commands before any run
NoContext == <<>>
NoStreamInput == [pipeline |-> EmptyInput, operation |-> <<>>, format |-> None]
NoGsCall == [op |-> "none", count |-> 0, batch_size |-> None, timestamp |-> None,
             unique_timestamps |-> FALSE, tick |-> 0, overflow_checks |-> FALSE]
NoTimeInput == [kind |-> "none", int |-> <<>>, float |-> <<>>]
NoTimeOutput == [parse |-> NotCalled, millis |-> NotCalled]
NoHashCall == [op |-> "none", length |-> None, binary |-> FALSE, data |-> None]

\* the generator state of a process that has served no invocation
FreshRng == <<7>> \o Repeat(31, ULID_LEN - 1)

CommandsIdle ==
    /\ secIn = NoContext
    /\ secOut = NotCalled
    /\ ratingOut = NotCalled
    /\ streamIn = NoStreamInput
    /\ streamOut = NotCalled
    /\ gsCall = NoGsCall
    /\ gsRes = NotCalled
    /\ timeIn = NoTimeInput
    /\ timeOut = NoTimeOutput
    /\ hashCall = NoHashCall
    /\ hashRes = NotCalled
    /\ rng = FreshRng
    /\ calls = <<>>

InitEngine ==
    /\ input \in InputStrings
    /\ vRes = NotCalled
    /\ pRes = NotCalled
    /\ dRes = NotCalled
    /\ tRes = NotCalled
    /\ rRes = NotCalled
    /\ genCall = NoCall
    /\ genRes = NoResult
    /\ sortIn = NoSortInput
    /\ sortOut = NoSortOutput
    /\ CommandsIdle

Validate ==
    /\ ~vRes.called
    /\ vRes' = Called(validate(input))
    /\ UNCHANGED <<input, pRes, dRes, tRes, rRes, genCall, genRes, sortIn, sortOut,
                 commandVars>>

Parse ==
    /\ ~pRes.called
    /\ pRes' = Called(parse(input))
    /\ UNCHANGED <<input, vRes, dRes, tRes, rRes, genCall, genRes, sortIn, sortOut,
                 commandVars>>

ValidateDetailed ==
    /\ ~dRes.called
    /\ dRes' = Called(validate_detailed(input))
    /\ UNCHANGED <<input, vRes, pRes, tRes, rRes, genCall, genRes, sortIn, sortOut,
                 commandVars>>

ExtractTimestamp ==
    /\ ~tRes.called
    /\ tRes' = Called(extract_timestamp(input))
    /\ UNCHANGED <<input, vRes, pRes, dRes, rRes, genCall, genRes, sortIn, sortOut,
                 commandVars>>

ExtractRandomness ==
    /\ ~rRes.called
    /\ rRes' = Called(extract_randomness(input))
    /\ UNCHANGED <<input, vRes, pRes, dRes, tRes, genCall, genRes, sortIn, sortOut,
                 commandVars>>

NextEngine ==
    \/ Validate
    \/ Parse
    \/ ValidateDetailed
    \/ ExtractTimestamp
    \/ ExtractRandomness

SpecEngine == InitEngine /\ [][NextEngine]_vars

----------------------------------------------------------------------------
(* Generation specification: one call of a generating function or of the   *)
(* `ulid generate` command, with the clock and the RNG as inputs            *)

U64Set(Tops, His, D4s, Fills, Lows) ==
    {<<top, hi, hi, d4>> \o Repeat(f, 8) \o <<l>> :
        top \in Tops, hi \in His, d4 \in D4s, f \in Fills, l \in Lows}

\* 1640995200000 (2022-01-01T00:00:00Z)
Ts2022 == <<0,0,0,0,1,15,24,9,14,31,7,0,0>>

\* u64 timestamps on both sides of 2^48, up to u64::MAX
U64Samples ==
    U64Set({0, 8, 15}, {0, 31}, {0, 7, 8, 31}, {0, 31}, 0..MaxLow)
    \cup {Ts2022, U64Max}

\* --timestamp values of the command (i64; first digit >= 8 is negative)
CmdTimestamps == U64Set({0, 15}, {0, 31}, {7, 8}, {0}, 0..MaxLow) \cup {Ts2022}

\* wall-clock readings (below 2^48)
NowSamples == U64Set({0}, {0}, {1, 7}, {31}, {0})

\* random u128 draws
U128Samples ==
    {<<top>> \o Repeat(f, ULID_LEN - 2) \o <<l>> :
        top \in {0, 7}, f \in {0, 31}, l \in 0..MaxLow}
SeedSamples == {<<7>> \o Repeat(f, ULID_LEN - 1) : f \in {0, 31}}

SmallCounts == 0..MaxCount
CmdCounts == {-1} \cup SmallCounts \cup {MAX_BULK_GENERATION + 1}

\* "AUTH_TOKEN", "database_id"
CtxAuthToken == <<65,85,84,72,95,84,79,75,69,78>>
CtxDatabaseId == <<100,97,116,97,98,97,115,101,95,105,100>>
Contexts == {None, Some(CtxAuthToken), Some(CtxDatabaseId)}
Formats == {None, Some("string"), Some("json"), Some("binary"), Some("xml")}

\* one clock reading and one seed for the calls at the ceiling
NowTypical == <<0, 0, 0, 1>> \o Repeat(31, 8) \o <<0>>
SeedTypical == <<7>> \o Repeat(31, ULID_LEN - 1)

\* The calls of generate_bulk explored: every clock and seed for small
\* counts, one clock and seed at the ceiling and above it.
BulkInputs ==
    ([count : SmallCounts, now : NowSamples, seed : SeedSamples])
    \cup
    ([count : {BULK_LIMIT, BULK_LIMIT + 1}, now : {NowTypical}, seed : {SeedTypical}])

\* The invocations of `ulid generate` explored: every combination of flags
\* for small counts, and the ceiling itself in string format.
CmdInputs ==
    ([count : {None} \cup {Some(c) : c \in CmdCounts},
      timestamp : {None} \cup {Some(t) : t \in CmdTimestamps},
      format : Formats, context : Contexts,
      now : NowSamples, seed : SeedSamples])
    \cup
    ([count : {Some(MAX_BULK_GENERATION)},
      timestamp : {None, Some(Ts2022)},
      format : {None}, context : {None},
      now : {NowTypical}, seed : {SeedTypical}])

EngineResult(r) ==
    [ok |-> r.ok, shape |-> "ulids", err |-> r.err, ulids |-> r.ulids, values |-> <<>>]
CommandResult(r) ==
    [ok |-> r.ok, shape |-> r.shape, err |-> r.err, ulids |-> <<>>, values |-> r.values]

InitGen ==
    /\ input = <<>>
    /\ vRes = NotCalled
    /\ pRes = NotCalled
    /\ dRes = NotCalled
    /\ tRes = NotCalled
    /\ rRes = NotCalled
    /\ genCall = NoCall
    /\ genRes = NoResult
    /\ sortIn = NoSortInput
    /\ sortOut = NoSortOutput
    /\ CommandsIdle

Generate ==
    /\ genCall.op = "none"
    /\ \E now \in NowSamples, seed \in U128Samples :
        /\ genCall' = [NoCall EXCEPT !.op = "generate"]
        /\ genRes' = EngineResult(generate(now, seed))
    /\ UNCHANGED <<engineVars, sortVars, commandVars>>

GenerateWithTimestamp ==
    /\ genCall.op = "none"
    /\ \E ts \in U64Samples, rnd \in U128Samples :
        /\ genCall' = [NoCall EXCEPT !.op = "generate_with_timestamp",
                                     !.timestamp = Some(ts)]
        /\ genRes' = EngineResult(generate_with_timestamp(ts, rnd))
    /\ UNCHANGED <<engineVars, sortVars, commandVars>>

GenerateBulk ==
    /\ genCall.op = "none"
    /\ \E c \in BulkInputs :
        /\ genCall' = [NoCall EXCEPT !.op = "generate_bulk", !.count = Some(c.count)]
        /\ genRes' = EngineResult(generate_bulk(c.count, c.now, c.seed))
    /\ UNCHANGED <<engineVars, sortVars, commandVars>>

GenerateCommand ==
    /\ genCall.op = "none"
    /\ \E c \in CmdInputs :
        /\ genCall' = [op |-> "ulid generate", count |-> c.count,
                       timestamp |-> c.timestamp, format |-> c.format,
                       context |-> c.context]
        /\ genRes' = CommandResult(UlidGenerateCommand_run(
                          c.count, c.timestamp, c.format, c.context, c.now, c.seed))
    /\ UNCHANGED <<engineVars, sortVars, commandVars>>

NextGen ==
    \/ Generate
    \/ GenerateWithTimestamp
    \/ GenerateBulk
    \/ GenerateCommand

SpecGen == InitGen /\ [][NextGen]_vars

----------------------------------------------------------------------------
(* Sort specification: one pipeline input and --column value; `ulid sort`  *)
(* is run on it with each combination of --natural and --reverse           *)

\* "01an4z07by79ka1307sr9x4mv3": UlidA in lower case
UlidALower == to_lowercase(UlidA)
\* "00000000000000000000000000": timestamp 0
UlidZero == Repeat(48, ULID_LEN)
\* "80000000000000000000000000": first symbol beyond 48 bits
UlidWide == <<56>> \o Repeat(48, ULID_LEN - 1)
\* "1" and "": not identifiers
NotUlidOne == <<49>>
NotUlidEmpty == <<>>

SortStrings == {UlidA, UlidB, UlidALower, UlidZero, UlidWide, NotUlidOne, NotUlidEmpty}

RecId(s, n) == RecVal(<< <<"id", StrVal(s)>>, <<"name", IntVal(n)>> >>)

\* the elements of the lists sorted without --column
PlainValues == {StrVal(s) : s \in SortStrings} \cup {IntVal(1), IntVal(2)}

\* the elements of the lists sorted with --column id
RecordValues ==
    {RecId(s, 1) : s \in SortStrings \ {UlidWide}}
    \cup {RecId(UlidA, 2),
          RecVal(<< <<"name", IntVal(3)>> >>),
          RecVal(<< <<"id", IntVal(4)>> >>),
          StrVal(UlidA)}

SortInputs ==
    ([pipeline : {ListInput(vs) : vs \in SeqsUpTo(PlainValues, MaxList)}
                 \cup {EmptyInput, ValueInput(StrVal(UlidA))},
      column : {None}])
    \cup
    ([pipeline : {ListInput(vs) : vs \in SeqsUpTo(RecordValues, MaxList)},
      column : {Some("id")}])

InitSort ==
    /\ input = <<>>
    /\ vRes = NotCalled
    /\ pRes = NotCalled
    /\ dRes = NotCalled
    /\ tRes = NotCalled
    /\ rRes = NotCalled
    /\ genCall = NoCall
    /\ genRes = NoResult
    /\ sortIn \in SortInputs
    /\ sortOut = NoSortOutput
    /\ CommandsIdle

Sort ==
    \E natural \in BOOLEAN, reverse \in BOOLEAN :
        /\ ~sortOut[<<natural, reverse>>].ran
        /\ LET r == UlidSortCommand_run(sortIn.pipeline, sortIn.column, natural, reverse)
           IN  sortOut' = [sortOut EXCEPT ![<<natural, reverse>>] =
                              [ran |-> TRUE, ok |-> r.ok, kind |-> r.kind, vals |-> r.vals]]
        /\ UNCHANGED <<engineVars, genVars, sortIn, commandVars>>

NextSort == Sort

SpecSort == InitSort /\ [][NextSort]_vars

----------------------------------------------------------------------------
(* Security specification: one context string, classified once *)

\* the upper-case form of an ASCII letter
ToUpper(c) == IF c >= 97 /\ c <= 122 THEN c - 32 ELSE c

\* "auth_token", "database_id", "key", "monkey", "jwt", "user_id",
\* "pass_word", "csrf-x", "order", "to ken", "user_token", "user_db",
\* "login", "logfile"
ContextBases ==
    { <<97,117,116,104,95,116,111,107,101,110>>,
      <<100,97,116,97,98,97,115,101,95,105,100>>,
      <<107,101,121>>,
      <<109,111,110,107,101,121>>,
      <<106,119,116>>,
      <<117,115,101,114,95,105,100>>,
      <<112,97,115,115,95,119,111,114,100>>,
      <<99,115,114,102,45,120>>,
      <<111,114,100,101,114>>,
      <<116,111,32,107,101,110>>,
      <<117,115,101,114,95,116,111,107,101,110>>,
      <<117,115,101,114,95,100,98>>,
      <<108,111,103,105,110>>,
      <<108,111,103,102,105,108,101>> }

\* s with the characters at the positions F in upper case
UpperAt(s, F) == [i \in DOMAIN s |-> IF i \in F THEN ToUpper(s[i]) ELSE s[i]]

\* the spellings of s that differ from it in the case of its first letters
CaseVariants(s) ==
    {UpperAt(s, F) : F \in SUBSET (1..(IF Len(s) < MaxFlip THEN Len(s) ELSE MaxFlip))}

ContextStrings ==
    UNION {CaseVariants(b) \cup {UpperAt(b, DOMAIN b)} : b \in ContextBases}

InitSecurity ==
    /\ input = <<>>
    /\ vRes = NotCalled
    /\ pRes = NotCalled
    /\ dRes = NotCalled
    /\ tRes = NotCalled
    /\ rRes = NotCalled
    /\ genCall = NoCall
    /\ genRes = NoResult
    /\ sortIn = NoSortInput
    /\ sortOut = NoSortOutput
    /\ secIn \in ContextStrings
    /\ secOut = NotCalled
    /\ ratingOut = NotCalled
    /\ streamIn = NoStreamInput
    /\ streamOut = NotCalled
    /\ gsCall = NoGsCall
    /\ gsRes = NotCalled
    /\ timeIn = NoTimeInput
    /\ timeOut = NoTimeOutput
    /\ hashCall = NoHashCall
    /\ hashRes = NotCalled
    /\ rng = FreshRng
    /\ calls = <<>>

IsSecuritySensitiveContext ==
    /\ ~secOut.called
    /\ secOut' = Called(is_security_sensitive_context(secIn))
    /\ UNCHANGED <<engineVars, genVars, sortVars, secIn, ratingOut, streamVars,
                   genStreamVars, timeVars, hashVars, sessionVars>>

GetSecurityRating ==
    /\ ~ratingOut.called
    /\ ratingOut' = Called(get_security_rating(secIn))
    /\ UNCHANGED <<engineVars, genVars, sortVars, secIn, secOut, streamVars,
                   genStreamVars, timeVars, hashVars, sessionVars>>

NextSecurity ==
    \/ IsSecuritySensitiveContext
    \/ GetSecurityRating

SpecSecurity == InitSecurity /\ [][NextSecurity]_vars

----------------------------------------------------------------------------
(* Stream specification: one pipeline input, operation and --output-format; *)
(* `ulid stream` run once with some --batch-size, --parallel and            *)
(* --continue-on-error                                                     *)

\* a valid identifier, a malformed string, a non-string, a record whose
\* identifier is found under "id", and a record without identifier field
StreamItems ==
    { StrVal(UlidA), StrVal(NotUlidOne), IntVal(1),
      RecVal(<< <<"uuid", StrVal(NotUlidOne)>>, <<"ulid", IntVal(2)>>,
                <<"id", StrVal(UlidB)>> >>),
      RecVal(<< <<"name", IntVal(3)>> >>) }

\* valid items that, after one more item, make a list longer than a batch
\* above the parallel threshold
Padding == Repeat(StrVal(UlidB), PARALLEL_MIN + 2)

\* every short list, and every item followed by the padding
StreamLists ==
    SeqsUpTo(StreamItems, MaxList) \cup {<<v>> \o Padding : v \in StreamItems}

StreamOperations == {"validate", "parse", "extract-timestamp", "transform", "frobnicate"}
StreamFormats == {None, Some("compact"), Some("timestamp-only")}

\* --batch-size: absent, negative, zero, small, and above the parallel threshold
StreamBatchSizes ==
    {None} \cup {Some(b) : b \in {-1, 0, PARALLEL_MIN + 2} \cup (1..MaxBatch)}

\* --output-format is varied for the operations that read it
StreamInputs ==
    {in \in [pipeline : {ListInput(vs) : vs \in StreamLists}
                        \cup {EmptyInput, ValueInput(StrVal(UlidA))},
             operation : StreamOperations,
             format : StreamFormats] :
        in.format.some => in.operation \in {"parse", "transform"}}

InitStream ==
    /\ input = <<>>
    /\ vRes = NotCalled
    /\ pRes = NotCalled
    /\ dRes = NotCalled
    /\ tRes = NotCalled
    /\ rRes = NotCalled
    /\ genCall = NoCall
    /\ genRes = NoResult
    /\ sortIn = NoSortInput
    /\ sortOut = NoSortOutput
    /\ secIn = NoContext
    /\ secOut = NotCalled
    /\ ratingOut = NotCalled
    /\ streamIn \in StreamInputs
    /\ streamOut = NotCalled
    /\ gsCall = NoGsCall
    /\ gsRes = NotCalled
    /\ timeIn = NoTimeInput
    /\ timeOut = NoTimeOutput
    /\ hashCall = NoHashCall
    /\ hashRes = NotCalled
    /\ rng = FreshRng
    /\ calls = <<>>

Stream ==
    /\ ~streamOut.called
    /\ \E batch_size \in StreamBatchSizes, parallel \in BOOLEAN,
          continue_on_error \in BOOLEAN :
        streamOut' = Called(
            [batch_size |-> batch_size, parallel |-> parallel,
             continue_on_error |-> continue_on_error,
             res |-> UlidStreamCommand_run(streamIn.pipeline, streamIn.operation,
                                           batch_size, streamIn.format, parallel,
                                           continue_on_error)])
    /\ UNCHANGED <<engineVars, genVars, sortVars, securityVars, streamIn,
                   genStreamVars, timeVars, hashVars, sessionVars>>

NextStream == Stream

SpecStream == InitStream /\ [][NextStream]_vars

----------------------------------------------------------------------------
(* Generate-stream specification: one call of `ulid generate-stream`, with  *)
(* the clock, the RNG and the build's overflow checking as inputs          *)

\* 2^48 - 1, the largest timestamp an identifier holds
Ts48Max == <<0, 0, 0, 7>> \o Repeat(31, U64_DIGITS - 4)

\* small counts with every kind of --batch-size and --timestamp
GsSmallInputs ==
    [count : {-1} \cup SmallCounts,
     batch_size : {None} \cup {Some(b) : b \in {-1, 0} \cup (1..MaxBatch)},
     timestamp : {None, Some(Ts2022), Some(Ts48Max), Some(U64Max)},
     unique_timestamps : BOOLEAN,
     tick : {0, 1},
     overflow_checks : BOOLEAN]

\* counts around the ceilings of generate_bulk and of the command, with
\* batches around the ceiling of generate_bulk
GsLargeInputs ==
    [count : {BULK_LIMIT + 1, STREAM_LIMIT + 1},
     batch_size : {None, Some(BULK_LIMIT + 1)},
     timestamp : {None, Some(Ts2022)},
     unique_timestamps : {TRUE},
     tick : {0},
     overflow_checks : {TRUE}]

\* the largest accepted count, as one batch from a base timestamp
GsCeilingInput ==
    [count |-> STREAM_LIMIT, batch_size |-> Some(STREAM_LIMIT),
     timestamp |-> Some(Ts2022), unique_timestamps |-> TRUE, tick |-> 0,
     overflow_checks |-> TRUE]

GsInputs == GsSmallInputs \cup GsLargeInputs \cup {GsCeilingInput}

InitGenStream ==
    /\ input = <<>>
    /\ vRes = NotCalled
    /\ pRes = NotCalled
    /\ dRes = NotCalled
    /\ tRes = NotCalled
    /\ rRes = NotCalled
    /\ genCall = NoCall
    /\ genRes = NoResult
    /\ sortIn = NoSortInput
    /\ sortOut = NoSortOutput
    /\ CommandsIdle

GenerateStream ==
    /\ gsCall.op = "none"
    /\ \E c \in GsInputs :
        /\ gsCall' = [op |-> "ulid generate-stream", count |-> c.count,
                      batch_size |-> c.batch_size, timestamp |-> c.timestamp,
                      unique_timestamps |-> c.unique_timestamps, tick |-> c.tick,
                      overflow_checks |-> c.overflow_checks]
        /\ gsRes' = Called(UlidGenerateStreamCommand_run(
                          c.count, c.batch_size, c.timestamp, c.unique_timestamps,
                          NowTypical, c.tick, SeedTypical, c.overflow_checks))
    /\ UNCHANGED <<engineVars, genVars, sortVars, securityVars, streamVars,
                   timeVars, hashVars, sessionVars>>

NextGenStream == GenerateStream

SpecGenStream == InitGenStream /\ [][NextGenStream]_vars

----------------------------------------------------------------------------
(* Time specification: one positional value; `ulid time parse` and         *)
(* `ulid time millis` each applied to it once.  String input (RFC 3339     *)
(* text) is not explored.                                                  *)

\* 0, 10^9, 1704067200, 10^12 - 1, 10^12, 1704067200000, 10^13, 10^15, 10^16
\* and 9223372036854775 (the largest magnitude whose product with 1000 fits)
TimeMagnitudes ==
    { ZeroMag,
      <<0,0,0,0,0,0,0,0,0,29,25,21,18,16,0>>,
      <<0,0,0,0,0,0,0,0,1,18,25,4,0,4,0>>,
      <<0,0,0,0,0,0,0,29,3,10,10,10,3,31,31>>,
      <<0,0,0,0,0,0,0,29,3,10,10,10,4,0,0>>,
      <<0,0,0,0,0,0,1,17,19,1,5,3,29,0,0>>,
      <<0,0,0,0,0,0,9,3,1,7,7,5,8,0,0>>,
      <<0,0,0,0,0,28,13,15,26,18,12,13,0,0,0>>,
      <<0,0,0,0,8,28,6,30,9,23,28,2,0,0,0>>,
      <<0,0,0,0,8,6,4,19,14,18,30,6,20,31,23>> }

\* i64::MAX and i64::MIN
I64_MAX == I64(FALSE, <<0,0,7>> \o Repeat(31, TIME_WIDTH - 3))
I64_MIN == I64(TRUE, TWO63)

TimeInts ==
    {I64(neg /\ AddDigits(b, k).digits # ZeroMag, AddDigits(b, k).digits) :
        neg \in BOOLEAN, b \in TimeMagnitudes, k \in 0..MaxLow}
    \cup {I64_MAX, I64_MIN}

\* floats with an exactly representable fraction, on both sides of 10^12
TimeFloats ==
    {TimeFloat(w, th) :
        w \in { ZeroMag,
                <<0,0,0,0,0,0,0,0,0,29,25,21,18,16,0>>,
                <<0,0,0,0,0,0,0,0,1,18,25,4,0,4,0>>,
                <<0,0,0,0,0,0,0,29,3,10,10,10,3,31,31>>,
                <<0,0,0,0,0,0,0,29,3,10,10,10,4,0,0>>,
                <<0,0,0,0,0,0,1,17,19,1,5,3,29,0,0>> },
        th \in {0, 125, 500}}
    \cup {TimeFloat(<<0,0,0,0,8,28,6,30,9,23,28,2,0,0,0>>, 0)}

TimeInputs == {TimeInt(v) : v \in TimeInts} \cup TimeFloats \cup {TimeOther, NoTimeInput}

\* the wall clock read by `ulid time millis` without argument: 1704067200000
NowMillis == I64(FALSE, <<0,0,0,0,0,0,1,17,19,1,5,3,29,0,0>>)

InitTime ==
    /\ input = <<>>
    /\ vRes = NotCalled
    /\ pRes = NotCalled
    /\ dRes = NotCalled
    /\ tRes = NotCalled
    /\ rRes = NotCalled
    /\ genCall = NoCall
    /\ genRes = NoResult
    /\ sortIn = NoSortInput
    /\ sortOut = NoSortOutput
    /\ secIn = NoContext
    /\ secOut = NotCalled
    /\ ratingOut = NotCalled
    /\ streamIn = NoStreamInput
    /\ streamOut = NotCalled
    /\ gsCall = NoGsCall
    /\ gsRes = NotCalled
    /\ timeIn \in TimeInputs
    /\ timeOut = NoTimeOutput
    /\ hashCall = NoHashCall
    /\ hashRes = NotCalled
    /\ rng = FreshRng
    /\ calls = <<>>

TimeParse ==
    /\ ~timeOut.parse.called
    /\ timeOut' = [timeOut EXCEPT !.parse = Called(UlidTimeParseCommand_run(timeIn))]
    /\ UNCHANGED <<engineVars, genVars, sortVars, securityVars, streamVars,
                   genStreamVars, timeIn, hashVars, sessionVars>>

TimeMillis ==
    /\ ~timeOut.millis.called
    /\ \E overflow_checks \in BOOLEAN :
        timeOut' = [timeOut EXCEPT !.millis =
                       Called(UlidTimeMillisCommand_run(timeIn, NowMillis, overflow_checks))]
    /\ UNCHANGED <<engineVars, genVars, sortVars, securityVars, streamVars,
                   genStreamVars, timeIn, hashVars, sessionVars>>

NextTime ==
    \/ TimeParse
    \/ TimeMillis

SpecTime == InitTime /\ [][NextTime]_vars

----------------------------------------------------------------------------
(* Hash specification: one call of `ulid hash blake3` or `ulid hash random` *)

\* --length values: around 0, around 1024, the default, and integers far
\* outside the range on both sides
HashLengths ==
    {None} \cup {Some(n) : n \in {-2147483647, -1025, -1024, -32, -1}
                              \cup (0..MaxCount)
                              \cup {DEFAULT_HASH_LENGTH, MAX_HASH_LENGTH - 1,
                                    MAX_HASH_LENGTH, MAX_HASH_LENGTH + 1, 2000,
                                    2147483647}}

\* "hello world", the empty string, and a value that is neither string nor binary
HashData ==
    {DataBytes(<<104,101,108,108,111,32,119,111,114,108,100>>), DataBytes(<<>>), DataOther}

RngSeeds == {0, 200}

InitHash ==
    /\ input = <<>>
    /\ vRes = NotCalled
    /\ pRes = NotCalled
    /\ dRes = NotCalled
    /\ tRes = NotCalled
    /\ rRes = NotCalled
    /\ genCall = NoCall
    /\ genRes = NoResult
    /\ sortIn = NoSortInput
    /\ sortOut = NoSortOutput
    /\ CommandsIdle

HashBlake3 ==
    /\ hashCall.op = "none"
    /\ \E length \in HashLengths, binary \in BOOLEAN, data \in HashData,
          positional \in BOOLEAN :
        /\ hashCall' = [op |-> "ulid hash blake3", length |-> length,
                        binary |-> binary, data |-> Some(data)]
        /\ hashRes' = Called(
              IF positional
              THEN UlidHashBlake3Command_run(length, binary, Some(data), DataOther)
              ELSE UlidHashBlake3Command_run(length, binary, None, data))
    /\ UNCHANGED <<engineVars, genVars, sortVars, securityVars, streamVars,
                   genStreamVars, timeVars, sessionVars>>

HashRandom ==
    /\ hashCall.op = "none"
    /\ \E length \in HashLengths, binary \in BOOLEAN, seed \in RngSeeds :
        /\ hashCall' = [op |-> "ulid hash random", length |-> length,
                        binary |-> binary, data |-> None]
        /\ hashRes' = Called(UlidHashRandomCommand_run(length, binary, seed))
    /\ UNCHANGED <<engineVars, genVars, sortVars, securityVars, streamVars,
                   genStreamVars, timeVars, sessionVars>>

NextHash ==
    \/ HashBlake3
    \/ HashRandom

SpecHash == InitHash /\ [][NextHash]_vars

----------------------------------------------------------------------------
(* Session specification: one plugin process serving a sequence of         *)
(* invocations, each with its own arguments, input and clock reading       *)

Invocation(cmd, text, vals, flag, option) ==
    [cmd |-> cmd, text |-> text, vals |-> vals, flag |-> flag, option |-> option]

\* invocations of the commands that generate nothing
QueryCalls ==
    { Invocation("ulid validate", UlidA, <<>>, FALSE, ""),
      Invocation("ulid validate", NotUlidOne, <<>>, TRUE, ""),
      Invocation("ulid parse", UlidB, <<>>, FALSE, ""),
      Invocation("ulid sort", <<>>, <<StrVal(UlidB), StrVal(UlidA), IntVal(1)>>, TRUE, ""),
      Invocation("ulid stream", <<>>, <<StrVal(UlidA), IntVal(1)>>, TRUE, "parse"),
      Invocation("ulid generate --context", CtxAuthToken, <<>>, FALSE, ""),
      Invocation("ulid hash blake3", <<104, 105>>, <<>>, FALSE, "") }

\* invocations of commands that draw from the process RNG
GeneratorCalls ==
    { Invocation("ulid generate", <<>>, <<>>, FALSE, ""),
      Invocation("ulid hash random", <<>>, <<>>, TRUE, "") }

InitSession ==
    /\ input = <<>>
    /\ vRes = NotCalled
    /\ pRes = NotCalled
    /\ dRes = NotCalled
    /\ tRes = NotCalled
    /\ rRes = NotCalled
    /\ genCall = NoCall
    /\ genRes = NoResult
    /\ sortIn = NoSortInput
    /\ sortOut = NoSortOutput
    /\ CommandsIdle

Serve(call, now) ==
    /\ Len(calls) < MaxCalls
    /\ calls' = Append(calls, [call |-> call,
                               outcome |-> PluginCommand_run(call, rng, now)])
    /\ rng' = rng_after(call.cmd, rng)
    /\ UNCHANGED <<engineVars, genVars, sortVars, securityVars, streamVars,
                   genStreamVars, timeVars, hashVars>>

ServeQuery == \E call \in QueryCalls : Serve(call, NowTypical)

ServeGenerator == \E call \in GeneratorCalls, now \in NowSamples : Serve(call, now)

NextSession ==
    \/ ServeQuery
    \/ ServeGenerator

SpecSession == InitSession /\ [][NextSession]_vars

----------------------------------------------------------------------------
(* Claims about the engine functions (SpecEngine) *)

IsInvalidFormatFor(r, s) == r.kind = "InvalidFormat" /\ r.input = s

\* C1: validate, parse, extract_timestamp and extract_randomness accept the
\* same strings (validate is true iff each of the others returns Ok), and a
\* failing parse/extract returns InvalidFormat whose input field is the string.
C1_SameAcceptance ==
    /\ (vRes.called /\ pRes.called) => (Out(vRes) = Out(pRes).ok)
    /\ (vRes.called /\ tRes.called) => (Out(vRes) = Out(tRes).ok)
    /\ (vRes.called /\ rRes.called) => (Out(vRes) = Out(rRes).ok)
    /\ (pRes.called /\ ~Out(pRes).ok) => IsInvalidFormatFor(Out(pRes), input)
    /\ (tRes.called /\ ~Out(tRes).ok) => IsInvalidFormatFor(Out(tRes), input)
    /\ (rRes.called /\ ~Out(rRes).ok) => IsInvalidFormatFor(Out(rRes), input)

\* All four functions were applied to a rejected, non-empty string.
C1_Witness ==
    /\ vRes.called /\ pRes.called /\ tRes.called /\ rRes.called
    /\ input # <<>>
    /\ ~Out(vRes) /\ ~Out(pRes).ok /\ ~Out(tRes).ok /\ ~Out(rRes).ok

InvalidPositions(s) == {i \in DOMAIN s : s[i] \notin valid_chars}

\* C2: in the result of validate_detailed, errors is non-empty iff valid is
\* false, and charset_valid is false whenever the string has a character
\* outside the 32-symbol alphabet.
C2_ErrorsIffInvalid ==
    dRes.called =>
        /\ (Out(dRes).errors # <<>>) <=> ~Out(dRes).valid
        /\ (InvalidPositions(input) # {}) => ~Out(dRes).charset_valid

\* validate_detailed ran on a 26-character string with a foreign character.
C2_Witness ==
    /\ dRes.called
    /\ Len(input) = ULID_LEN
    /\ InvalidPositions(input) # {}
    /\ ~Out(dRes).valid /\ ~Out(dRes).charset_valid

EntriesOf(errors, rule) == {k \in DOMAIN errors : errors[k].rule = rule}
ParseEntries(errors) == {k \in DOMAIN errors : errors[k].rule \notin {"length", "charset"}}

\* C3 as claimed: every check runs on every input, so a string that does not
\* decode always has timestamp_valid = FALSE and a parse-error entry, next to
\* its length and character entries.
C3_NoCheckSkipped ==
    dRes.called =>
        /\ (Len(input) # ULID_LEN) => EntriesOf(Out(dRes).errors, "length") # {}
        /\ \A i \in InvalidPositions(input) :
              CharError(input[i], i - 1) \in Range(Out(dRes).errors)
        /\ ~from_str(input).ok =>
              /\ ~Out(dRes).timestamp_valid
              /\ ParseEntries(Out(dRes).errors) # {}

\* C3 amended: the length check and the per-character check run on every
\* input and each violation gets its entry (one for a wrong length, one per
\* foreign character), but the decode is attempted only when both passed:
\* otherwise timestamp_valid stays TRUE and there is no parse-error entry.
C3_BasicChecksAccumulate ==
    dRes.called =>
        LET e == Out(dRes).errors
            basicBad == Len(input) # ULID_LEN \/ InvalidPositions(input) # {}
        IN  /\ Cardinality(EntriesOf(e, "length")) = (IF Len(input) # ULID_LEN THEN 1 ELSE 0)
            /\ Cardinality(EntriesOf(e, "charset")) = Cardinality(InvalidPositions(input))
            /\ \A i \in InvalidPositions(input) : CharError(input[i], i - 1) \in Range(e)
            /\ basicBad => (Out(dRes).timestamp_valid /\ ParseEntries(e) = {})
            /\ ~basicBad => (Out(dRes).timestamp_valid <=> from_str(input).ok)
            /\ ~basicBad => (ParseEntries(e) # {} <=> ~from_str(input).ok)

\* A string with a wrong length and two foreign characters: three entries,
\* and timestamp_valid still TRUE although the string does not decode.
C3_Witness ==
    /\ dRes.called
    /\ Len(input) = ULID_LEN - 1
    /\ Cardinality(InvalidPositions(input)) = 2
    /\ Len(Out(dRes).errors) = 3
    /\ ~Out(dRes).charset_valid
    /\ Out(dRes).timestamp_valid
    /\ ~from_str(input).ok

----------------------------------------------------------------------------
(* Claims about generation (SpecGen) *)

EngineGenOps == {"generate", "generate_with_timestamp", "generate_bulk"}

\* the strings of the identifiers a call returned
ReturnedStrings ==
    IF genCall.op \in EngineGenOps
    THEN {to_string(genRes.ulids[i]) : i \in DOMAIN genRes.ulids}
    ELSE {genRes.values[i].str :
            i \in {k \in DOMAIN genRes.values :
                     genRes.shape \in {"value", "list"} /\ genRes.values[k].kind = "string"}}

RendersValid(s) ==
    LET d == validate_detailed(s)
    IN  /\ Len(s) = 26
        /\ \A i \in DOMAIN s : s[i] \in valid_chars
        /\ validate(s)
        /\ d.valid
        /\ d.errors = <<>>

\* C4: every identifier returned by generate, generate_with_timestamp or
\* generate_bulk renders as 26 characters of the Crockford alphabet, so that
\* validate is true for it and validate_detailed reports valid with no errors.
C4_GeneratedAreValid == \A s \in ReturnedStrings : RendersValid(s)

\* generate_with_timestamp(u64::MAX) returned an identifier, and it is valid.
C4_Witness ==
    /\ genCall.op = "generate_with_timestamp"
    /\ genCall.timestamp = Some(U64Max)
    /\ genRes.ok
    /\ Len(genRes.ulids) = 1
    /\ RendersValid(to_string(genRes.ulids[1]))

\* C5 as claimed: whenever generate_with_timestamp(ts) returns Ok, parsing the
\* string of the identifier succeeds with valid = TRUE and timestamp_ms = ts,
\* and extract_timestamp returns ts.
C5_TimestampRoundTrip ==
    (genCall.op = "generate_with_timestamp" /\ genRes.ok) =>
        LET s == to_string(genRes.ulids[1])
            p == parse(s)
            ts == Get(genCall.timestamp)
        IN  /\ p.ok /\ p.valid
            /\ p.timestamp_ms = ts
            /\ extract_timestamp(s).ok
            /\ extract_timestamp(s).value = ts

\* ts < 2^48
Fits48(ts) == ts[1] = 0 /\ ts[2] = 0 /\ ts[3] = 0 /\ ts[4] < 8
\* the i64 with this bit pattern is negative
IsNegative(ts) == ts[1] >= 8

ReachesGeneration ==
    /\ genCall.op = "ulid generate"
    /\ ~(genCall.context.some /\ is_security_sensitive_context(Get(genCall.context)))
    /\ parse_output_format(genCall.format).ok

\* C6 as claimed: generate_with_timestamp fails for every timestamp that does
\* not fit in 48 bits, and so does `ulid generate --timestamp` with a negative
\* value whenever it gets to generate an identifier.
C6_WideTimestampRejected ==
    /\ (genCall.op = "generate_with_timestamp" /\ ~Fits48(Get(genCall.timestamp)))
          => (~genRes.ok /\ genRes.ulids = <<>>)
    /\ (/\ ReachesGeneration
        /\ genCall.timestamp.some /\ IsNegative(Get(genCall.timestamp))
        /\ genCall.count.some => Get(genCall.count) > 0)
          => ~genRes.ok

\* C7: generate_bulk(count) and `ulid generate --count count` return exactly
\* count identifiers for 0 <= count <= 10,000 (none for 0) and an error without
\* identifiers for count > 10,000; the command rejects count < 0 with
\* 'Invalid count'.
C7_BulkCeiling ==
    /\ genCall.op = "generate_bulk" =>
          IF Get(genCall.count) <= 10000
          THEN genRes.ok /\ Len(genRes.ulids) = Get(genCall.count)
          ELSE ~genRes.ok /\ genRes.err = "InvalidInput" /\ genRes.ulids = <<>>
    /\ (ReachesGeneration /\ genCall.count.some) =>
          IF Get(genCall.count) < 0
          THEN ~genRes.ok /\ genRes.err = "Invalid count" /\ genRes.values = <<>>
          ELSE IF Get(genCall.count) <= 10000
          THEN genRes.ok /\ genRes.shape = "list"
               /\ Len(genRes.values) = Get(genCall.count)
          ELSE ~genRes.ok /\ genRes.shape = "error" /\ genRes.values = <<>>

\* `ulid generate --count 10000` returned a list of 10,000 identifiers.
C7_Witness ==
    /\ genCall.op = "ulid generate"
    /\ genCall.count = Some(10000)
    /\ ~genCall.timestamp.some
    /\ genRes.ok
    /\ genRes.shape = "list"
    /\ Len(genRes.values) = 10000

----------------------------------------------------------------------------
(* Claims about `ulid sort` (SpecSort) *)

Reverse(s) == [i \in 1..Len(s) |-> s[Len(s) + 1 - i]]

\* the string the comparator of this run extracts from an element, if any
Key(v) ==
    IF sortIn.column.some THEN extract_ulid_from_record(v, Get(sortIn.column))
    ELSE extract_string_value(v)

Keys(vs) == [i \in DOMAIN vs |-> Key(vs[i])]

\* the elements of vs whose key is k, in their order in vs
RECURSIVE WithKey(_, _)
WithKey(vs, k) ==
    IF vs = <<>> THEN <<>>
    ELSE IF Key(Head(vs)) = k THEN <<Head(vs)>> \o WithKey(Tail(vs), k)
    ELSE WithKey(Tail(vs), k)

Ran(natural, reverse) ==
    sortIn.pipeline.kind = "list" /\ sortOut[<<natural, reverse>>].ran

Sorted(natural, reverse) == sortOut[<<natural, reverse>>].vals

\* C8 as claimed: for any input list and any --column and --natural, the
\* output with --reverse is the output without it read in the opposite order.
C8_ReverseIsExactReversal ==
    \A natural \in BOOLEAN :
        (Ran(natural, FALSE) /\ Ran(natural, TRUE)) =>
            Sorted(natural, TRUE) = Reverse(Sorted(natural, FALSE))

\* C8 amended: the keys of the --reverse output are the keys of the plain
\* output in the opposite order, but elements that compare equal (no usable
\* string, or the same string) keep their input order in both outputs; the
\* output is the exact reversal when no two input elements compare equal.
C8_ReverseUpToTies ==
    \A natural \in BOOLEAN :
        (Ran(natural, FALSE) /\ Ran(natural, TRUE)) =>
            LET f == Sorted(natural, FALSE)
                r == Sorted(natural, TRUE)
                vs == sortIn.pipeline.vals
            IN  /\ sortOut[<<natural, FALSE>>].ok /\ sortOut[<<natural, TRUE>>].ok
                /\ Keys(r) = Reverse(Keys(f))
                /\ \A i \in DOMAIN vs :
                      /\ WithKey(f, Key(vs[i])) = WithKey(vs, Key(vs[i]))
                      /\ WithKey(r, Key(vs[i])) = WithKey(vs, Key(vs[i]))
                /\ (\A i, j \in DOMAIN vs : i # j => Key(vs[i]) # Key(vs[j]))
                      => r = Reverse(f)

\* Two different elements that compare equal were sorted both ways: both
\* outputs keep them in input order, so one is not the reverse of the other.
C8_Witness ==
    /\ Ran(FALSE, FALSE) /\ Ran(FALSE, TRUE)
    /\ Len(sortIn.pipeline.vals) = 2
    /\ sortIn.pipeline.vals[1] # sortIn.pipeline.vals[2]
    /\ Key(sortIn.pipeline.vals[1]) = Key(sortIn.pipeline.vals[2])
    /\ Sorted(FALSE, TRUE) = Sorted(FALSE, FALSE)
    /\ Sorted(FALSE, TRUE) # Reverse(Sorted(FALSE, FALSE))

AllValidStrings(vs) ==
    \A i \in DOMAIN vs : vs[i].kind = "string" /\ validate(vs[i].str)

\* C9 as claimed: for every list of strings that all validate as ULIDs,
\* `ulid sort` returns the same sequence with and without --natural.
C9_TimestampSortIsNaturalSort ==
    (/\ Ran(FALSE, FALSE) /\ Ran(TRUE, FALSE)
     /\ ~sortIn.column.some
     /\ AllValidStrings(sortIn.pipeline.vals))
        => Sorted(FALSE, FALSE) = Sorted(TRUE, FALSE)

IsMalformed(k) == k.some /\ ~validate(Get(k))
IsValidUlid(k) == k.some /\ validate(Get(k))

\* C10 as claimed: in timestamp mode without --reverse the command raises no
\* error for strings that do not parse, and every such string is placed
\* before every valid identifier.
C10_MalformedFirst ==
    Ran(FALSE, FALSE) =>
        LET out == Sorted(FALSE, FALSE)
        IN  /\ sortOut[<<FALSE, FALSE>>].ok
            /\ \A i, j \in DOMAIN out :
                  (IsMalformed(Key(out[i])) /\ IsValidUlid(Key(out[j]))) => i < j

\* C10 amended: no error is raised, a string that does not parse is treated
\* as timestamp 0 and is placed before every valid identifier whose decoded
\* timestamp is greater than 0; relative to a valid identifier whose decoded
\* timestamp is 0 it is placed by plain string comparison.
C10_MalformedBeforeLaterTimestamps ==
    Ran(FALSE, FALSE) =>
        LET out == Sorted(FALSE, FALSE)
        IN  /\ sortOut[<<FALSE, FALSE>>].ok
            /\ Len(out) = Len(sortIn.pipeline.vals)
            /\ \A i, j \in DOMAIN out :
                  (IsMalformed(Key(out[i])) /\ IsValidUlid(Key(out[j]))) =>
                      IF parse(Get(Key(out[j]))).timestamp_ms # ZeroU64
                      THEN i < j
                      ELSE (i < j) <=> (StrCmp(Get(Key(out[i])), Get(Key(out[j]))) = "Less")

\* A valid identifier followed by a string that does not parse was sorted:
\* the malformed string was moved in front of it.
C10_Witness ==
    /\ Ran(FALSE, FALSE)
    /\ Len(sortIn.pipeline.vals) = 2
    /\ IsValidUlid(Key(sortIn.pipeline.vals[1]))
    /\ parse(Get(Key(sortIn.pipeline.vals[1]))).timestamp_ms # ZeroU64
    /\ IsMalformed(Key(sortIn.pipeline.vals[2]))
    /\ Sorted(FALSE, FALSE) = Reverse(sortIn.pipeline.vals)

----------------------------------------------------------------------------
(* Claims about the security-context classification (SpecSecurity) *)

\* a keyword of the list occurs in s when s is read without regard to case
KeywordOccurs(s) ==
    \E k \in DOMAIN sensitive_keywords :
        LET kw == sensitive_keywords[k] IN
        \E i \in 1..Len(s) :
            /\ i + Len(kw) - 1 <= Len(s)
            /\ \A j \in 1..Len(kw) : ToLower(s[i + j - 1]) = kw[j]

\* other spellings of c: all lower case, all upper case, and the case of the
\* first letters changed
CaseChanges(c) ==
    {to_lowercase(c), UpperAt(c, DOMAIN c)} \cup CaseVariants(to_lowercase(c))

\* C11: is_security_sensitive_context(c) is true exactly when the lower-cased
\* context contains a keyword of the list as a substring, and every change of
\* letter case of c is classified the same way as c.
C11_CaseInsensitiveKeywordMatch ==
    secOut.called =>
        /\ Out(secOut) = KeywordOccurs(secIn)
        /\ \A c2 \in CaseChanges(secIn) :
              is_security_sensitive_context(c2) = Out(secOut)

\* a context written entirely in upper case was flagged
C11_Witness ==
    /\ secOut.called
    /\ Out(secOut)
    /\ secIn # to_lowercase(secIn)
    /\ secIn = UpperAt(secIn, DOMAIN secIn)

----------------------------------------------------------------------------
(* Claims about `ulid stream` (SpecStream) *)

\* the run recorded in streamOut and what it was given
StreamRun == Out(streamOut)
StreamVals == streamIn.pipeline.vals
StreamFormat == IF streamIn.format.some THEN Get(streamIn.format) ELSE "full"
Item(i) == process_single_item(StreamVals[i], streamIn.operation, StreamFormat)
RanOnList == streamOut.called /\ streamIn.pipeline.kind = "list"

\* C12: with --continue-on-error the command returns a list as long as the
\* input list, whose i-th element is the normal result of the i-th input or,
\* when that input fails, the record {error, input} holding the input itself.
C12_ContinueOnErrorKeepsEveryItem ==
    (RanOnList /\ StreamRun.continue_on_error) =>
        /\ StreamRun.res.kind = "list"
        /\ Len(StreamRun.res.vals) = Len(StreamVals)
        /\ \A i \in DOMAIN StreamVals :
              StreamRun.res.vals[i] =
                  IF Item(i).ok THEN Item(i).value
                  ELSE ErrorRecord(Item(i).err, StreamVals[i])

\* the input positions whose processing fails
Failing == {i \in DOMAIN StreamVals : ~Item(i).ok}
FirstFailing == CHOOSE i \in Failing : \A j \in Failing : i <= j

\* C13: without --continue-on-error the command returns the error of the
\* first failing item of the input, and no list.
C13_FirstFailureAborts ==
    (RanOnList /\ ~StreamRun.continue_on_error /\ Failing # {}) =>
        StreamRun.res = StreamError(Item(FirstFailing).err)

\* the batch size the run used
EffectiveBatchSize ==
    IF StreamRun.batch_size.some THEN Get(StreamRun.batch_size) ELSE DEFAULT_BATCH_SIZE

\* all items handled sequentially as one batch
SingleBatch(continue_on_error) ==
    LET r == process_batch_sequential(StreamVals, streamIn.operation, StreamFormat,
                                      continue_on_error)
    IN  IF r.ok THEN StreamList(r.vals) ELSE StreamError(r.err)

\* C14: for a batch size of at least 1 the outcome does not depend on
\* --parallel nor on the batch size: it is the outcome of the same run with
\* --parallel switched, and of handling the whole list as a single batch.
C14_ChunkingIndependent ==
    (RanOnList /\ EffectiveBatchSize >= 1) =>
        /\ StreamRun.res =
              UlidStreamCommand_run(streamIn.pipeline, streamIn.operation,
                                    StreamRun.batch_size, streamIn.format,
                                    ~StreamRun.parallel, StreamRun.continue_on_error)
        /\ StreamRun.res = SingleBatch(StreamRun.continue_on_error)

\* a run with --parallel whose first chunk took the parallel path, cut into
\* more than one chunk, with a failing item in the list
C14_Witness ==
    /\ RanOnList
    /\ StreamRun.parallel
    /\ EffectiveBatchSize > PARALLEL_MIN
    /\ Len(StreamVals) > EffectiveBatchSize
    /\ Failing # {}

----------------------------------------------------------------------------
(* Claims about `ulid generate-stream` (SpecGenStream) *)

GsRan == gsRes.called
GsOut == Out(gsRes)

\* C15: the command returns exactly `count` identifiers for every count in
\* 0..100,000 whatever --batch-size and --timestamp are, 'Invalid count' for
\* a negative count and 'Count too large' for a count above 100,000.
C15_ExactlyCountIdentifiers ==
    GsRan =>
        IF gsCall.count < 0 THEN GsOut = GsError(LabeledError("Invalid count", <<>>))
        ELSE IF gsCall.count > STREAM_LIMIT
        THEN GsOut = GsError(LabeledError("Count too large", <<>>))
        ELSE GsOut.kind = "list" /\ Len(GsOut.vals) = gsCall.count

\* the timestamp the i-th returned identifier decodes to
GsTimestamp(i) == extract_timestamp(GsOut.vals[i].v[1]).value

\* C16: with --unique-timestamps no two identifiers of the returned list
\* carry the same timestamp, with or without --timestamp.
C16_UniqueTimestamps ==
    (GsRan /\ gsCall.unique_timestamps /\ GsOut.kind = "list") =>
        Cardinality({GsTimestamp(i) : i \in DOMAIN GsOut.vals}) = Len(GsOut.vals)

\* C17: with --timestamp T the i-th returned identifier, counted from 0
\* across batches, decodes to the timestamp T + i.
C17_TimestampIncrementsPerIdentifier ==
    (GsRan /\ gsCall.timestamp.some /\ GsOut.kind = "list") =>
        \A i \in DOMAIN GsOut.vals :
            LET expected == AddDigits(Get(gsCall.timestamp), i - 1)
            IN  /\ expected.carry = 0
                /\ GsTimestamp(i) = expected.digits

----------------------------------------------------------------------------
(* Claims about the time commands (SpecTime) *)

ParseOut == Out(timeOut.parse)
MillisOut == Out(timeOut.millis)

\* what the heuristic prescribes for an integer v: v itself above 10^12,
\* the exact product 1000 * v otherwise (10^12 itself counts as seconds)
HeuristicMillis(v) ==
    IF I64Greater(v, TIMESTAMP_MILLIS_THRESHOLD) THEN v ELSE ExactMul(v, 1000)

\* C18: for an integer input v, `ulid time millis` returns v when v > 10^12
\* and v * 1000 otherwise, and `ulid time parse` reports that same value as
\* unix_millis.
C18_IntegerHeuristic ==
    timeIn.kind = "int" =>
        /\ timeOut.millis.called =>
              MillisOut = MillisOk(HeuristicMillis(timeIn.int))
        /\ timeOut.parse.called =>
              ParseOut.ok /\ ParseOut.unix_millis = HeuristicMillis(timeIn.int)

\* what the heuristic prescribes for a float: above 10^12 the value is a
\* number of milliseconds, otherwise a number of seconds
HeuristicFloatMillis(f) ==
    IF FloatAboveThreshold(f) THEN I64(FALSE, f.whole)
    ELSE I64(FALSE, AddDigits(MulDigits(f.whole, 1000, 0).digits, f.thousandths).digits)

\* C19: for a float input both commands apply the heuristic, so they denote
\* the same instant: milliseconds above 10^12, seconds otherwise.
C19_FloatHeuristicAgrees ==
    timeIn.kind = "float" =>
        /\ timeOut.millis.called =>
              MillisOut = MillisOk(HeuristicFloatMillis(timeIn.float))
        /\ timeOut.parse.called =>
              ParseOut.ok /\ ParseOut.unix_millis = HeuristicFloatMillis(timeIn.float)

----------------------------------------------------------------------------
(* Claims about the hash commands (SpecHash) *)

HashOut == Out(hashRes)

\* the length the call asked for: --length, or 32 without it
RequestedLength == IF hashCall.length.some THEN Get(hashCall.length) ELSE DEFAULT_HASH_LENGTH

\* the call hashes a string or binary value, or draws random bytes
HasHashableData == hashCall.data.some => Get(hashCall.data).kind = "bytes"

\* C20: `ulid hash blake3` (given string or binary data) and `ulid hash
\* random` succeed exactly when the requested length n is in 1..1024 and then
\* return n bytes (2n hex characters without --binary); for any other n they
\* return their length error and no output; without --length n is 32.
C20_LengthRange ==
    (hashRes.called /\ HasHashableData) =>
        IF RequestedLength >= 1 /\ RequestedLength <= MAX_HASH_LENGTH
        THEN /\ HashOut.kind = IF hashCall.binary THEN "binary" ELSE "string"
             /\ Len(HashOut.bytes) = IF hashCall.binary THEN RequestedLength
                                     ELSE 2 * RequestedLength
        ELSE /\ HashOut.kind = "error"
             /\ HashOut.err = IF hashCall.op = "ulid hash blake3"
                              THEN "Invalid output length" ELSE "Invalid length"
             /\ HashOut.bytes = <<>>

\* a call with the largest accepted length returned hex text, and the call
\* was `ulid hash random`
C20_Witness ==
    /\ hashRes.called
    /\ hashCall.op = "ulid hash random"
    /\ hashCall.length = Some(MAX_HASH_LENGTH)
    /\ ~hashCall.binary
    /\ HashOut.kind = "string"
    /\ Len(HashOut.bytes) = 2 * MAX_HASH_LENGTH

----------------------------------------------------------------------------
(* Claims about a sequence of invocations (SpecSession) *)

\* the invocations served so far whose command generates nothing
Queries == {i \in DOMAIN calls : calls[i].call.cmd \notin GENERATING}

SameInvocation(i, j) ==
    /\ calls[i].call.cmd = calls[j].call.cmd
    /\ calls[i].call = calls[j].call

----------------------------------------------------------------------------
(* Further claims about the engine functions (SpecEngine) *)

\* the value of a symbol of Crockford's alphabet, in either letter case:
\* 0-9 are 0..9; A-H 10..17; J, K 18, 19; M, N 20, 21; P-T 22..26; V-Z 27..31
CrockfordValue(c) ==
    LET u == IF c >= 97 THEN c - 32 ELSE c
    IN  IF u <= 57 THEN u - 48
        ELSE IF u <= 72 THEN u - 55
        ELSE IF u <= 75 THEN u - 56
        ELSE IF u <= 78 THEN u - 57
        ELSE IF u <= 84 THEN u - 58
        ELSE u - 59

\* the first ten characters read as a big-endian base-32 number
FirstTenAsNumber(s) == <<0, 0, 0>> \o [i \in 1..TIME_DIGITS |-> CrockfordValue(s[i])]

\* a decimal numeral as a u64
RECURSIVE FromDecimal(_)
FromDecimal(dec) ==
    IF dec = <<>> THEN ZeroU64
    ELSE AddDigits(MulDigits(FromDecimal(SubSeq(dec, 1, Len(dec) - 1)), 10, 0).digits,
                   dec[Len(dec)]).digits

\* 1465824320894
VectorTimestamp == FromDecimal(<<1,4,6,5,8,2,4,3,2,0,8,9,4>>)

\* the input is accepted and its timestamp is representable in 48 bits
AcceptedWithin48Bits(ok) == ok /\ CrockfordValue(input[1]) <= 7

\* C22: for an accepted identifier whose timestamp fits 48 bits,
\* extract_timestamp and parse's timestamp_ms are the first ten characters
\* read as a big-endian base-32 number, whatever the last sixteen are;
\* extract_timestamp("01AN4Z07BY79KA1307SR9X4MV3") is 1465824320894.
C22_TimestampIsFirstTenCharacters ==
    /\ (tRes.called /\ AcceptedWithin48Bits(Out(tRes).ok)) =>
            Out(tRes).value = FirstTenAsNumber(input)
    /\ (pRes.called /\ AcceptedWithin48Bits(Out(pRes).ok)) =>
            Out(pRes).timestamp_ms = FirstTenAsNumber(input)
    /\ (tRes.called /\ input = UlidA) =>
            Out(tRes).ok /\ Out(tRes).value = VectorTimestamp

\* the known prefix with another tail was decoded by both functions to the
\* timestamp of the known vector
C22_Witness ==
    /\ input = UlidATailLower
    /\ tRes.called /\ Out(tRes).ok /\ Out(tRes).value = VectorTimestamp
    /\ pRes.called /\ Out(pRes).ok /\ Out(pRes).timestamp_ms = VectorTimestamp

\* 26 characters of the alphabet whose first ten encode a number of more
\* than 48 bits
EncodesBeyond48Bits ==
    /\ Len(input) = ULID_LEN
    /\ \A i \in DOMAIN input : input[i] \in valid_chars
    /\ CrockfordValue(input[1]) > 7

\* C23: a 26-character string of alphabet characters whose timestamp does not
\* fit 48 bits is rejected: validate is false, parse is an error, and
\* validate_detailed reports valid = false, charset_valid = true and
\* timestamp_valid = false.
C23_OverflowingStringRejected ==
    EncodesBeyond48Bits =>
        /\ vRes.called => ~Out(vRes)
        /\ pRes.called => ~Out(pRes).ok
        /\ dRes.called => /\ ~Out(dRes).valid
                           /\ Out(dRes).charset_valid
                           /\ ~Out(dRes).timestamp_valid

----------------------------------------------------------------------------
(* Claims about get_security_rating (SpecSecurity) *)

\* a keyword of the list occurs in s read without regard to case
OccursIn(risk, s) ==
    \E k \in DOMAIN risk :
        \E i \in 1..Len(s) :
            /\ i + Len(risk[k]) - 1 <= Len(s)
            /\ \A j \in 1..Len(risk[k]) : ToLower(s[i + j - 1]) = risk[k][j]

\* the levels whose keywords occur in s, as ranks: 3 High, 2 Medium, 1 Low
RanksIn(s) ==
    {0} \cup (IF OccursIn(high_risk, s) THEN {3} ELSE {})
        \cup (IF OccursIn(medium_risk, s) THEN {2} ELSE {})
        \cup (IF OccursIn(low_risk, s) THEN {1} ELSE {})

RatingOfRank == <<"Low", "Medium", "High">>

\* the rating of the highest level occurring in s, Unknown when none occurs
HighestRating(s) ==
    LET top == CHOOSE r \in RanksIn(s) : \A q \in RanksIn(s) : q <= r
    IN  IF top = 0 THEN "Unknown" ELSE RatingOfRank[top]

\* C24: get_security_rating gives every context the rating of the highest
\* risk level one of whose keywords the lower-cased context contains, and
\* Unknown when it contains none.
C24_HighestLevelWins ==
    ratingOut.called => Out(ratingOut) = HighestRating(secIn)

\* a context with keywords of two levels, partly in upper case, was rated High
C24_Witness ==
    /\ ratingOut.called
    /\ Out(ratingOut) = "High"
    /\ Cardinality(RanksIn(secIn)) >= 3
    /\ secIn # to_lowercase(secIn)

\* C26: the plain and the detailed validation agree on every string:
\* validate(s) is the valid field of validate_detailed(s), which are what
\* `ulid validate s` and `ulid validate s --detailed` report.
C26_PlainAndDetailedAgree ==
    (vRes.called /\ dRes.called) =>
        /\ Out(vRes) = Out(dRes).valid
        /\ UlidValidateCommand_run(input, FALSE) = BoolVal(Out(vRes))
        /\ RecordGet(UlidValidateCommand_run(input, TRUE).v, "valid")
              = Some(BoolVal(Out(dRes).valid))

----------------------------------------------------------------------------
(* Further claims about `ulid stream` (SpecStream) *)

\* the operations named by the signature
KnownOperations == {"validate", "parse", "extract-timestamp", "transform"}

\* C25: for an operation other than validate, parse, extract-timestamp and
\* transform the command returns the error 'Invalid operation', for every
\* input list, the empty one included, and every setting of
\* --continue-on-error.
C25_UnknownOperationRejected ==
    (RanOnList /\ streamIn.operation \notin KnownOperations) =>
        /\ StreamRun.res.kind = "error"
        /\ StreamRun.res.err.msg = "Invalid operation"

\* C27: for every integer --batch-size, 0 and negative values included, and
\* every input the command ends with a result or a labelled error; it never
\* panics.
C27_EndsWithResultOrError ==
    streamOut.called => StreamRun.res.kind \in {"list", "empty", "error"}

----------------------------------------------------------------------------
(* Further claims about the time commands (SpecTime) *)

\* C28: for every 64-bit signed integer v `ulid time millis` returns the
\* mathematically exact result, v when v > 10^12 and 1000 * v otherwise: the
\* command does not abort and the value is not reduced modulo 2^64.
C28_MillisNeverOverflows ==
    (timeIn.kind = "int" /\ timeOut.millis.called) =>
        /\ MillisOut.kind # "panic"
        /\ MillisOut.kind = "int"
        /\ MillisOut.value =
              (IF I64Greater(timeIn.int, TIMESTAMP_MILLIS_THRESHOLD)
                  THEN timeIn.int
                  ELSE ExactMul(timeIn.int, 1000))

----------------------------------------------------------------------------
(* Further claims about `ulid sort` (SpecSort) *)

\* the values a comparator may meet: strings, integers, records with and
\* without the column
MixedValues == PlainValues \cup RecordValues

\* the string a comparator reads from a value, if any
UsableString(v, column) ==
    IF column.some THEN extract_ulid_from_record(v, Get(column))
    ELSE extract_string_value(v)

\* compare(a, b) is the reverse of compare(b, a)
Antisymmetric(ab, ba) == ab = reverse_ordering(ba)

\* from a <= b and b <= c follows a <= c, strictly when one of them is strict
Transitive(ab, bc, ac) ==
    (ab # "Greater" /\ bc # "Greater") =>
        /\ ac # "Greater"
        /\ (ab = "Less" \/ bc = "Less") => ac = "Less"

\* a value without a usable string is placed after a string, before it
\* under --reverse
PlacedByReverse(sa, sb, ab, reverse) ==
    /\ (sa.some /\ ~sb.some) => ab = (IF reverse THEN "Greater" ELSE "Less")
    /\ (~sa.some /\ sb.some) => ab = (IF reverse THEN "Less" ELSE "Greater")
    /\ (~sa.some /\ ~sb.some) => ab = "Equal"

\* the closure handed to sort_by, applied to every pair of values under every
\* combination of --column, --natural and --reverse
SortColumns == {None, Some("id")}
Compared ==
    [column \in SortColumns |-> [natural \in BOOLEAN |-> [reverse \in BOOLEAN |->
        [a \in MixedValues |-> [b \in MixedValues |->
            Comparator(a, b, column, natural, reverse)]]]]]

\* the laws of a total preorder, given the six comparisons among a, b and c
PreorderLaws(ab, ba, ac, ca, bc, cb) ==
    /\ Antisymmetric(ab, ba)
    /\ Antisymmetric(ac, ca)
    /\ Antisymmetric(bc, cb)
    /\ Transitive(ab, bc, ac)
    /\ Transitive(ac, cb, ab)
    /\ Transitive(ca, ab, cb)

\* the laws on three values under one comparator
PreorderOn(a, b, c, cmp, sa, sc, reverse) ==
    /\ cmp[a][a] = "Equal"
    /\ PreorderLaws(cmp[a][b], cmp[b][a], cmp[a][c], cmp[c][a], cmp[b][c], cmp[c][b])
    /\ PlacedByReverse(sa, sc, cmp[a][c], reverse)

\* `ulid sort` has been run on the list under all four flag combinations
RanEveryCombination ==
    \A natural \in BOOLEAN, reverse \in BOOLEAN : Ran(natural, reverse)

\* C29: under every combination of --natural, --reverse and --column the
\* comparator handed to sort_by is a total preorder on the values of the
\* list and any third value: compare(a, a) is Equal, compare(a, b) is the
\* reverse of compare(b, a), the relation is transitive, and a value without
\* a usable string comes after every string, before it under --reverse.
C29_ComparatorIsTotalPreorder ==
    RanEveryCombination =>
        \A natural \in BOOLEAN, reverse \in BOOLEAN :
            \A i \in DOMAIN sortIn.pipeline.vals, j \in DOMAIN sortIn.pipeline.vals :
                \A c \in MixedValues :
                    PreorderOn(sortIn.pipeline.vals[i], sortIn.pipeline.vals[j], c,
                               Compared[sortIn.column][natural][reverse],
                               UsableString(sortIn.pipeline.vals[i], sortIn.column),
                               UsableString(c, sortIn.column), reverse)

\* a list of a malformed string and a record-less value sorted by timestamp
\* under --reverse
C29_Witness ==
    /\ RanEveryCombination
    /\ ~sortIn.column.some
    /\ sortIn.pipeline.vals = <<StrVal(NotUlidOne), IntVal(1)>>
    /\ Sorted(FALSE, TRUE) = <<IntVal(1), StrVal(NotUlidOne)>>

----------------------------------------------------------------------------
(* Further claims about `ulid generate` (SpecGen) *)

\* the call carried a --context that is_security_sensitive_context flags
FlaggedContext ==
    genCall.context.some /\ is_security_sensitive_context(Get(genCall.context))

\* what the same flags produce when no --context is given, for every clock
\* reading and every draw of the random source
WithoutContext ==
    {CommandResult(UlidGenerateCommand_run(genCall.count, genCall.timestamp,
                                           genCall.format, None, now, seed)) :
        now \in NowSamples \cup {NowTypical}, seed \in SeedSamples}

\* C30: with a --context that is_security_sensitive_context flags,
\* `ulid generate` returns the context warning as a successful result and
\* no identifier, whatever --count, --timestamp and --format are, an unknown
\* format or an out-of-range count included; with no context or one that
\* is not flagged the result is that of the same call without --context.
C30_FlaggedContextPreempts ==
    genCall.op = "ulid generate" =>
        IF FlaggedContext
        THEN /\ genRes = CommandResult(CmdWarning(Get(genCall.context)))
             /\ genRes.ok /\ genRes.shape = "warning" /\ genRes.ulids = <<>>
        ELSE /\ genRes.shape # "warning"
             /\ genRes \in WithoutContext

\* --context AUTH_TOKEN together with an unknown format and a count above
\* the ceiling
C30_Witness ==
    /\ genCall.op = "ulid generate"
    /\ genCall.context = Some(CtxAuthToken)
    /\ genCall.format = Some("xml")
    /\ genCall.count = Some(MAX_BULK_GENERATION + 1)
    /\ genRes.shape = "warning"

====
